---- MODULE Spec2Model ----
(***************************************************************************)
(* A model of the claim web application: the Monday.com gateway            *)
(* (src/monday-client.js, class MondayClient) and the week-view            *)
(* application (src/app.js, class ClaimWebApp).                            *)
(*                                                                         *)
(* JavaScript strings are modelled as sequences of chunks (TLA+ strings):  *)
(* "a" + "b" is <<"a">> \o <<"b">>, s.includes(t) is Includes(s, t).       *)
(* JavaScript null / undefined are the reserved one-chunk sequences Null   *)
(* and Undefined, which no string of the model uses.                       *)
(***************************************************************************)
EXTENDS Integers, Sequences, FiniteSets, TLC

VARIABLES
    \* ---- MondayClient (src/monday-client.js:689-1053)
    apiKey,        \* this.apiKey
    \* ---- one call of makeRequest
    mrPc,          \* "idle" | "fetching" | "returned" | "thrown"
    mrResult,      \* data returned (when mrPc = "returned")
    mrError,       \* message of the Error thrown (when mrPc = "thrown")
    netRequests,   \* number of fetch() calls issued so far
    mrCalls,       \* number of makeRequest calls made so far
    lastResponse,  \* the transport outcome the last fetch() ended with
    mrKey,         \* this.apiKey as read by the last makeRequest call
    netBefore,     \* netRequests when the last makeRequest call started
    \* ---- one call of queryItemsPaginated / queryAllItemsInGroup
    fn,            \* which of the paginated fetches is running
    limit,         \* the page size the fetch asks for
    pgPc,          \* "idle" | "await" | "delay" | "returned" | "rejected"
    allItems,      \* let allItems
    cursor,        \* let cursor
    page,          \* let page
    pgResult,      \* the list the promise resolved with
    pgError,       \* the message of the error the promise rejected with
    pgRequests,    \* page requests issued by this fetch
    sentCursor,    \* the cursor variable carried by the last page request
    \* ---- the remote side, as observed by this fetch
    served,        \* every item the remote has returned, in order
    answered,      \* number of page requests the remote has answered
    lastCursor,    \* the cursor of the last page the remote returned
    allFull,       \* every answer so far was a full page with a cursor
    stopSeen,      \* some answer had no cursor or was a short page
    failedAt,      \* the page request that failed (0: none)
    \* ---- one call of ClaimWebApp.getYearGroupId(board, year)
    gBoard,        \* the board argument
    gYear,         \* the year argument
    gCurrentYear,  \* new Date().getFullYear().toString()
    gPc,           \* "input" | "done"
    gResult,       \* the value returned
    \* ---- ClaimWebApp (src/app.js)
    rev,           \* the revision of the class: "A" (app.js:1-1766, 7-day
                   \* week) or "B" (app.js:1785-2612, 5-day week)
    tz,            \* the browser's offset from UTC, in hours
    user,          \* this.user
    currentWeekStart,  \* this.currentWeekStart
    entries,       \* this.entries, the WeekIndex
    keyPc,         \* saveApiKey: "idle" | "await" (getCurrentUser pending)
    loads,         \* the calls of loadData, in the order they started
    saves,         \* the calls of saveEntry, in the order they started
    lastWrite,     \* the load whose processing last wrote this.entries
    loading,       \* the loading overlay is displayed
    edits,         \* the calls of updateEntry and deleteEntry, in order
    \* ---- the CustomerWorkMemory (src/app.js:44-170) and localStorage
    customerWorkPairs,  \* this.customerWorkPairs: Map customer -> Set
    expiredPairs,  \* this.expiredPairs: Set of "customer|workItem" keys
    storedPairs,   \* localStorage item 'customerWorkPairs'
    storedExpired, \* localStorage item 'expiredCustomerWorkPairs'
    \* ---- one call of processItems / processItemsWithDebug
    nItems,        \* the items argument
    nPc,           \* "input" | "chunks" | "done" | "thrown"
    \* ---- localStorage item 'mondayApiKey'
    storedKey,
    \* ---- the event loop of the page
    running,       \* a call is on the stack: no task can start
    chunksDone,    \* the chunks the loop of processItemsWithDebug has done
    queue,         \* the user events that wait for their handler to run
    handled        \* what the handlers that ran found, in order

gwVars == <<apiKey>>
mrVars == <<mrPc, mrResult, mrError, netRequests, mrCalls, lastResponse,
            mrKey, netBefore>>
pgVars == <<fn, limit, pgPc, allItems, cursor, page, pgResult, pgError,
            pgRequests, sentCursor>>
srvVars == <<served, answered, lastCursor, allFull, stopSeen, failedAt>>
grpVars == <<gBoard, gYear, gCurrentYear, gPc, gResult>>
appVars == <<rev, tz, user, currentWeekStart, entries, keyPc, loads, saves,
             lastWrite>>
normVars == <<nItems, nPc>>
uiVars == <<loading, edits>>
memVars == <<customerWorkPairs, expiredPairs, storedPairs, storedExpired>>
evVars == <<running, chunksDone, queue, handled>>
auxVars == <<storedKey, evVars>>
vars == <<gwVars, mrVars, pgVars, srvVars, grpVars, appVars, normVars, uiVars, memVars,
          auxVars>>

-----------------------------------------------------------------------------
(* JavaScript values *)

Null == <<"<null>">>
Undefined == <<"<undefined>">>

\* Boolean(s) for a string-or-null value: null, undefined and "" are falsy
Truthy(s) == s # Null /\ s # Undefined /\ s # <<>>

\* s.includes(t)
Includes(s, t) ==
    \E i \in 0..(Len(s) - Len(t)) : \A j \in 1..Len(t) : s[i + j] = t[j]

\* xs.join(sep) for a list of strings
RECURSIVE Join(_, _)
Join(xs, sep) ==
    IF xs = <<>> THEN <<>>
    ELSE IF Len(xs) = 1 THEN xs[1]
    ELSE xs[1] \o sep \o Join(Tail(xs), sep)

-----------------------------------------------------------------------------
(* JSON: JSON.stringify and JSON.parse *)

\* JSON values. An object is a list of <<key, value>> members.
JNull == [t |-> "null"]
JStr(s) == [t |-> "string", s |-> s]
JNum(n) == [t |-> "number", n |-> n]
JArr(a) == [t |-> "array", a |-> a]
JObj(members) == [t |-> "object", m |-> members]

HasKey(o, k) == o.t = "object" /\ \E i \in 1..Len(o.m) : o.m[i][1] = k
Get(o, k) == o.m[CHOOSE i \in 1..Len(o.m) : o.m[i][1] = k][2]

\* the literal '""' and the literal 'null'
EmptyJsonString == <<"\"", "\"">>
NullText == <<"null">>

RECURSIVE JSONstringify(_)
JSONstringify(v) ==
    LET RECURSIVE list(_, _)
        list(xs, i) ==
            IF i > Len(xs) THEN <<>>
            ELSE (IF i > 1 THEN <<",">> ELSE <<>>)
                 \o JSONstringify(xs[i]) \o list(xs, i + 1)
        RECURSIVE members(_, _)
        members(ms, i) ==
            IF i > Len(ms) THEN <<>>
            ELSE (IF i > 1 THEN <<",">> ELSE <<>>)
                 \o <<"\"", ms[i][1], "\"", ":">>
                 \o JSONstringify(ms[i][2]) \o members(ms, i + 1)
    IN CASE v.t = "null" -> <<"null">>
         [] v.t = "string" -> <<"\"">> \o v.s \o <<"\"">>
         [] v.t = "number" -> <<ToString(v.n)>>
         [] v.t = "array" -> <<"[">> \o list(v.a, 1) \o <<"]">>
         [] v.t = "object" -> <<"{">> \o members(v.m, 1) \o <<"}">>

\* the people of the workspace: the ids the API gives them, as a number and
\* as a string
UserIds == {JNum(77), JStr(<<"77">>)}
PersonIds == UserIds \cup {JNum(88)}
Person(id) == JObj(<< <<"id", id>>, <<"kind", JStr(<<"person">>)>> >>)
PersonsAndTeams(list) == JObj(<< <<"personsAndTeams", list>> >>)
DateValue(date) == JObj(<< <<"date", date>> >>)

\* the dates and timestamps a date column may hold
DateStrings ==
    {<<"2025-01-13">>, <<"2025-01-15">>, <<"2025-01-29">>, <<"2025-01-19">>, <<"2025-01-20">>, <<"2025-01-22">>,
     <<"2025-01-25">>, <<"2025-01-26">>, <<"2025-01-27">>,
     <<"2025-01-22", "T", "10:00:00Z">>, <<"T", "10:00:00Z">>,
     <<"22/01/2025">>, <<"9999-99-99">>, <<>>}

\* the JSON documents the column values of this model are drawn from
JsonDocuments ==
    {JNull, JStr(<<>>), JStr(<<"Acme">>), JStr(<<"Beta">>), JNum(8), JObj(<<>>),
     JObj(<< <<"text", JStr(<<"Acme">>)>> >>),
     JObj(<< <<"index", JNum(3)>> >>), JObj(<< <<"index", JNum(6)>> >>),
     JObj(<< <<"index", JNum(99)>> >>), JObj(<< <<"index", JNum(-1)>> >>),
     JObj(<< <<"index", JStr(<<"3">>)>> >>),
     DateValue(JNum(5)), DateValue(JNull),
     PersonsAndTeams(JArr(<<>>)), PersonsAndTeams(JStr(<<"77">>)),
     PersonsAndTeams(JArr(<<JNum(77)>>))}
    \cup {DateValue(JStr(d)) : d \in DateStrings}
    \cup {PersonsAndTeams(JArr(<<Person(id)>>)) : id \in PersonIds}
    \cup {PersonsAndTeams(JArr(<<Person(JNum(88)), Person(id)>>)) : id \in UserIds}
    \cup {PersonsAndTeams(JArr(<<JNull, Person(id)>>)) : id \in UserIds}

\* JSON.parse(text): [ok, v]; ok = FALSE is the SyntaxError thrown for a text
\* that is no JSON document
JsonTexts == {<<JSONstringify(v), v>> : v \in JsonDocuments}
JSONparse(text) ==
    IF \E e \in JsonTexts : e[1] = text
    THEN [ok |-> TRUE, v |-> (CHOOSE e \in JsonTexts : e[1] = text)[2]]
    ELSE [ok |-> FALSE, v |-> JNull]

-----------------------------------------------------------------------------
(* Dates: a Date is its time value, in hours since 2025-01-06T00:00Z (a     *)
(* Monday); tz is the browser's offset from UTC, in hours.                  *)

Calendar ==
    <<"2025-01-06", "2025-01-07", "2025-01-08", "2025-01-09",
     "2025-01-10", "2025-01-11", "2025-01-12", "2025-01-13",
     "2025-01-14", "2025-01-15", "2025-01-16", "2025-01-17",
     "2025-01-18", "2025-01-19", "2025-01-20", "2025-01-21",
     "2025-01-22", "2025-01-23", "2025-01-24", "2025-01-25",
     "2025-01-26", "2025-01-27", "2025-01-28", "2025-01-29",
     "2025-01-30", "2025-01-31", "2025-02-01", "2025-02-02",
     "2025-02-03", "2025-02-04", "2025-02-05", "2025-02-06",
     "2025-02-07", "2025-02-08", "2025-02-09">>

\* date.toISOString()
toISOString(date) ==
    <<Calendar[(date \div 24) + 1], "T", ToString(date % 24), ":00:00.000Z">>

\* s.split('T')[0]
RECURSIVE SplitT(_)
SplitT(s) ==
    IF s = <<>> \/ Head(s) = "T" THEN <<>> ELSE <<Head(s)>> \o SplitT(Tail(s))

\* formatDate(date): date.toISOString().split('T')[0]
formatDate(date) == SplitT(toISOString(date))

\* date.getDay() in the browser's time zone: 0 is Sunday
getDay(date, zone) == (((date + zone) \div 24) + 1) % 7

\* getMonday(date): setDate(getDate() - day + (day === 0 ? -6 : 1))
getMonday(date, zone) ==
    LET day == getDay(date, zone)
    IN date + 24 * ((IF day = 0 THEN -6 ELSE 1) - day)

\* the number of dates of a week: 7 (app.js:346), 5 in the other revision
\* (app.js:1917)
WeekLength(r) == IF r = "A" THEN 7 ELSE 5

\* getWeekDates(startDate)
getWeekDates(startDate, r) == [i \in 1..WeekLength(r) |-> startDate + 24 * (i - 1)]

\* getWeekDates(this.currentWeekStart).map(date => this.formatDate(date))
currentWeekDates(startDate, r) ==
    [i \in 1..WeekLength(r) |-> formatDate(getWeekDates(startDate, r)[i])]

\* new Date('') and what getMonday makes of it: the Invalid Date, whose time
\* value is NaN, written here as a time no date of Calendar has
InvalidDate == -1
\* date.toISOString() throws RangeError: Invalid time value
ToISOStringThrows(date) == date = InvalidDate

\* dateStr.match(/^\d{4}-\d{2}-\d{2}$/): one chunk of that shape
IsoShaped == {Calendar[i] : i \in 1..Len(Calendar)} \cup {"9999-99-99"}
MatchesIsoPattern(s) == Len(s) = 1 /\ s[1] \in IsoShaped

-----------------------------------------------------------------------------
(* Normalization: the items of the board become the WeekIndex               *)
(* (this.entries, a Map from a date to the entries of that date)            *)

Col(id, value, text) == [id |-> id, value |-> value, text |-> text]
Item(id, name, hasColumns, cols) ==
    [id |-> id, name |-> name, hasColumns |-> hasColumns, column_values |-> cols]

\* this.user: null until an API key has been validated
NoUser == [id |-> JNull, name |-> Null, email |-> Null]

\* s && s !== 'null' && s !== '""'
Filled(s) == Truthy(s) /\ s # NullText /\ s # EmptyJsonString

\* personsAndTeams.some(person => person.id === this.user.id); reading the id
\* of a null person throws, which ends the search in the catch block
SomePersonIsUser(a, u) ==
    \E i \in 1..Len(a) :
        /\ HasKey(a[i], "id") /\ Get(a[i], "id") = u.id
        /\ \A j \in 1..(i - 1) : a[j].t # "null"

\* the try block around JSON.parse(text): personsAndTeams is an array that
\* holds the user
ListsUser(text, u) ==
    LET p == JSONparse(text)
    IN /\ p.ok
       /\ HasKey(p.v, "personsAndTeams")
       /\ Get(p.v, "personsAndTeams").t = "array"
       /\ SomePersonIsUser(Get(p.v, "personsAndTeams").a, u)

\* debugIsUserItem(item).isMatch
debugIsUserItem(item, u) ==
    /\ u # NoUser
    /\ \/ Truthy(item.name) /\ Includes(item.name, u.name)
       \/ /\ item.hasColumns
          /\ \E i \in 1..Len(item.column_values) :
                LET col == item.column_values[i]
                IN /\ col.id = "person"
                   /\ \/ Filled(col.value) /\ ListsUser(col.value, u)
                      \/ /\ Truthy(col.text)
                         /\ \/ Includes(col.text, u.name)
                            \/ Includes(col.text, u.email)

\* an ownership test that takes any item with a person column
isUserItem_AnyPerson(item, u) ==
    /\ u # NoUser
    /\ item.hasColumns
    /\ \E i \in 1..Len(item.column_values) : item.column_values[i].id = "person"

\* isUserItem(item), the ownership test of the revision with the 5-day week
isUserItem(item, u) ==
    /\ u # NoUser
    /\ \/ Truthy(item.name) /\ Includes(item.name, u.name)
       \/ /\ item.hasColumns
          /\ \E i \in 1..Len(item.column_values) :
                LET col == item.column_values[i]
                IN /\ col.id = "person"
                   /\ \/ Filled(col.value) /\ ListsUser(col.value, u)
                      \/ /\ Filled(col.text)
                         /\ \/ Includes(col.text, u.name)
                            \/ Includes(col.text, u.email)
                            \/ ListsUser(col.text, u)

\* an extraction that keeps the time of day
DateOfColumn_KeepsTime(col) ==
    LET p == JSONparse(col.value)
    IN IF /\ Filled(col.value) /\ p.ok /\ HasKey(p.v, "date")
          /\ Get(p.v, "date").t = "string" /\ Get(p.v, "date").s # <<>>
       THEN Get(p.v, "date").s
       ELSE IF Filled(col.text) /\ MatchesIsoPattern(SplitT(col.text)) THEN col.text
       ELSE Null

\* what one date4 column yields: a date, or Null to go on to the next column
DateOfColumn(col) ==
    LET p == JSONparse(col.value)
        dateStr == SplitT(col.text)
    IN IF /\ Filled(col.value) /\ p.ok /\ HasKey(p.v, "date")
          /\ Get(p.v, "date").t = "string" /\ Get(p.v, "date").s # <<>>
       THEN SplitT(Get(p.v, "date").s)
       ELSE IF Filled(col.text) /\ MatchesIsoPattern(dateStr) THEN dateStr
       ELSE Null

\* the first column of cols, from index i on, that f maps to something else
\* than none
RECURSIVE FirstColumn(_, _, _, _)
FirstColumn(cols, i, yield, none) ==
    IF i > Len(cols) THEN none
    ELSE IF yield[i] # none THEN yield[i]
    ELSE FirstColumn(cols, i + 1, yield, none)

\* extractItemDate(item)
extractItemDate(item) ==
    IF ~item.hasColumns THEN Null
    ELSE FirstColumn(item.column_values, 1,
            [i \in 1..Len(item.column_values) |->
                IF item.column_values[i].id = "date4"
                THEN DateOfColumn(item.column_values[i]) ELSE Null],
            Null)

\* an extraction that takes any text there is, the sentinels too
ValueOfColumn_AnyText(col) ==
    LET p == JSONparse(col.value)
    IN IF Truthy(col.text) THEN col.text
       ELSE IF ~Filled(col.value) THEN Undefined
       ELSE IF ~p.ok THEN col.value
       ELSE IF p.v.t = "string" THEN p.v.s
       ELSE IF /\ HasKey(p.v, "text") /\ Get(p.v, "text").t = "string"
               /\ Get(p.v, "text").s # <<>>
            THEN Get(p.v, "text").s
       ELSE Undefined

\* what one column yields to extractColumnValue: Undefined to go on
ValueOfColumn(col) ==
    LET p == JSONparse(col.value)
    IN IF Filled(col.text) THEN col.text
       ELSE IF ~Filled(col.value) THEN Undefined
       ELSE IF ~p.ok THEN col.value
       ELSE IF p.v.t = "string" THEN p.v.s
       ELSE IF /\ HasKey(p.v, "text") /\ Get(p.v, "text").t = "string"
               /\ Get(p.v, "text").s # <<>>
            THEN Get(p.v, "text").s
       ELSE Undefined

\* extractColumnValue(item, columnId): '' when no column yields a value
extractColumnValue(item, columnId) ==
    IF ~item.hasColumns THEN <<>>
    ELSE LET found == FirstColumn(item.column_values, 1,
                        [i \in 1..Len(item.column_values) |->
                            IF item.column_values[i].id = columnId
                            THEN ValueOfColumn(item.column_values[i])
                            ELSE Undefined],
                        Undefined)
         IN IF found = Undefined THEN <<>> ELSE found

\* extractCommentValue(item)
extractCommentValue(item) == extractColumnValue(item, "text2__1")

\* text.toLowerCase(), chunk by chunk
LowerChunk(c) ==
    CASE c = "Billable" -> "billable"
      [] c = "VACATION" -> "vacation"
      [] c = "Holiday" -> "holiday"
      [] c = "Business Development" -> "business development"
      [] OTHER -> c
toLowerCase(s) == [i \in 1..Len(s) |-> LowerChunk(s[i])]

statusMap ==
    << <<"vacation", 0>>, <<"billable", 1>>, <<"holding", 2>>, <<"education", 3>>,
       <<"work reduction", 4>>, <<"tbd", 5>>, <<"holiday", 6>>, <<"presales", 7>>,
       <<"illness", 8>>, <<"paid not worked", 9>>, <<"intellectual capital", 10>>,
       <<"business development", 11>>, <<"overhead", 12>>
    >>

\* getActivityTypeName(value): types[value] || 'Unknown'
types ==
    <<"Vacation", "Billable", "Holding", "Education", "Work Reduction", "TBD",
      "Holiday", "Presales", "Illness", "Paid Not Worked", "Intellectual Capital",
      "Business Development", "Overhead">>
getActivityTypeName(value) ==
    IF value \in 0..(Len(types) - 1) THEN types[value + 1] ELSE "Unknown"

\* what one column yields to extractStatusValue: NoIndex to go on
NoIndex == [found |-> FALSE, index |-> 0]
Index(n) == [found |-> TRUE, index |-> n]
\* an extraction without the keyword table
StatusOfColumn_IgnoresText(col) ==
    LET p == JSONparse(col.value)
    IN IF col.id # "status" \/ ~Filled(col.value) THEN NoIndex
       ELSE IF p.ok /\ HasKey(p.v, "index") /\ Get(p.v, "index").t = "number"
            THEN Index(Get(p.v, "index").n)
       ELSE NoIndex
StatusOfColumn(col) ==
    LET p == JSONparse(col.value)
        text == toLowerCase(col.text)
        hits == {k \in 1..Len(statusMap) : Includes(text, <<statusMap[k][1]>>)}
    IN IF col.id # "status" \/ ~Filled(col.value) THEN NoIndex
       ELSE IF p.ok
            THEN IF HasKey(p.v, "index") /\ Get(p.v, "index").t = "number"
                 THEN Index(Get(p.v, "index").n) ELSE NoIndex
       ELSE IF Truthy(col.text) /\ hits # {}
            THEN Index(statusMap[CHOOSE k \in hits : \A h \in hits : k <= h][2])
       ELSE NoIndex

\* extractStatusValue(item): 1 when no status column yields an index
extractStatusValue(item) ==
    IF ~item.hasColumns THEN 1
    ELSE LET found == FirstColumn(item.column_values, 1,
                        [i \in 1..Len(item.column_values) |->
                            StatusOfColumn(item.column_values[i])], NoIndex)
         IN IF found.found THEN found.index ELSE 1

\* the entryData of an item
entryData(item) ==
    [id |-> item.id,
     activityType |-> extractStatusValue(item),
     customer |-> extractColumnValue(item, "text__1"),
     workItem |-> extractColumnValue(item, "text8__1"),
     comment |-> extractCommentValue(item),
     hours |-> extractColumnValue(item, "numbers__1")]

\* new Map()
EmptyIndex == [k \in {} |-> <<>>]

\* if (!this.entries.has(date)) this.entries.set(date, []);
\* this.entries.get(date).push(entryData)
Push(index, date, e) ==
    IF date \in DOMAIN index THEN [index EXCEPT ![date] = Append(@, e)]
    ELSE index @@ (date :> <<e>>)

\* a week filter that lets every date through
InWeek_Always(date, weekDates) == TRUE

\* currentWeekDates.includes(date)
InWeek(date, weekDates) == \E i \in 1..Len(weekDates) : weekDates[i] = date

\* the ownership test of revision r
OwnershipTest(item, u, r) ==
    IF r = "A" THEN debugIsUserItem(item, u) ELSE isUserItem(item, u)

\* the forEach over the items, from item i on
RECURSIVE ForEachItem(_, _, _, _, _, _)
ForEachItem(items, i, index, u, weekDates, r) ==
    IF i > Len(items) THEN index
    ELSE LET item == items[i]
             date == extractItemDate(item)
             keep == /\ OwnershipTest(item, u, r)
                     /\ Truthy(date)
                     /\ InWeek(date, weekDates)
         IN ForEachItem(items, i + 1,
                IF keep THEN Push(index, date, entryData(item)) ELSE index,
                u, weekDates, r)

\* processItemsWithDebug(items): this.entries after the call
processItemsWithDebug(items, u, weekStart) ==
    ForEachItem(items, 1, EmptyIndex, u, currentWeekDates(weekStart, "A"), "A")

\* processItems(items) of the revision with the 5-day week
processItems(items, u, weekStart) ==
    ForEachItem(items, 1, EmptyIndex, u, currentWeekDates(weekStart, "B"), "B")

\* JSON.parse(col.value) throws a SyntaxError
ParseFails(col) == Filled(col.value) /\ ~JSONparse(col.value).ok

\* the columns whose value the normalization hands to JSON.parse, and those
\* for which it does so inside a try block whose catch goes on
ParsedColumns ==
    {"person", "date4", "status", "text__1", "text8__1", "text2__1", "numbers__1"}
GuardedColumns ==
    {"person", "date4", "status", "text__1", "text8__1", "text2__1", "numbers__1"}

\* processing the item ends in an exception that leaves the forEach: a
\* SyntaxError of a JSON.parse that no try block encloses
Raises(item, u, r) ==
    /\ item.hasColumns
    /\ \E i \in 1..Len(item.column_values) :
            /\ item.column_values[i].id \in ParsedColumns \ GuardedColumns
            /\ ParseFails(item.column_values[i])

\* the items processed before an exception ends the call: all of them when
\* none raises
Processed(items, u, r) ==
    LET bad == {i \in 1..Len(items) : Raises(items[i], u, r)}
    IN IF bad = {} THEN items
       ELSE SubSeq(items, 1, (CHOOSE i \in bad : \A j \in bad : i <= j) - 1)

\* the app before its constructor has run, and no normalization under way
AppIdle ==
    /\ rev = "A" /\ tz = 0 /\ user = NoUser /\ currentWeekStart = 0
    /\ entries = EmptyIndex /\ keyPc = "idle" /\ loads = <<>> /\ saves = <<>>
    /\ lastWrite = 0
NormIdle == nItems = <<>> /\ nPc = "input"
UiIdle == loading = FALSE /\ edits = <<>>
\* localStorage.getItem(key) of a key never written
Absent == [present |-> FALSE, v |-> {}]
\* the same for the item that holds a map
AbsentMap == [present |-> FALSE, v |-> <<>>]
EvIdle == running = FALSE /\ chunksDone = 0 /\ queue = <<>> /\ handled = <<>>
AuxIdle == storedKey = Null /\ EvIdle
MemIdle ==
    /\ customerWorkPairs = <<>> /\ expiredPairs = {}
    /\ storedPairs = AbsentMap /\ storedExpired = Absent

-----------------------------------------------------------------------------
(* The transport: what fetch(this.baseUrl, ...) can end with *)

\* result.data of a GraphQL answer; shape tells what the items query holds:
\*   "undefined"  no data member          "noboards"  boards missing or empty
\*   "nogroups"   groups missing or empty "nopage"    items_page missing
\*   "nullitems"  items_page.items null   "page"      items_page.items a list
Data(shape, items, cur) == [shape |-> shape, items |-> items, cursor |-> cur]
NoData == Data("undefined", <<>>, Null)

\* kind "none": no fetch was made; "neterr": fetch() rejected;
\* "http": a response arrived (ok = response.ok); json is what
\* response.json() finds: "invalid" (not JSON), "null", or "object"
Response(kind, ok, status, text, json, hasErrors, errors, data) ==
    [kind |-> kind, ok |-> ok, status |-> status, text |-> text, json |-> json,
     hasErrors |-> hasErrors, errors |-> errors, data |-> data]
NoResponse == Response("none", FALSE, <<>>, <<>>, "invalid", FALSE, <<>>, NoData)
NetworkError(msg) == Response("neterr", FALSE, <<>>, msg, "invalid", FALSE, <<>>, NoData)
HttpError(status, text) ==
    Response("http", FALSE, status, text, "invalid", FALSE, <<>>, NoData)
HttpBody(json, hasErrors, errors, data) ==
    Response("http", TRUE, <<"200">>, <<>>, json, hasErrors, errors, data)

\* result.errors.map(error => error.message).join(', ')
errorMessages(errors) == Join(errors, <<", ">>)

\* makeRequest once fetch() has settled with resp: [ok, data, message]
Returned(data) == [ok |-> TRUE, data |-> data, message |-> <<>>]
Thrown(message) == [ok |-> FALSE, data |-> NoData, message |-> message]

\* a makeRequest that never looks at result.errors
makeRequest_IgnoresErrors(resp) ==
    IF resp.kind = "neterr" THEN Thrown(resp.text)
    ELSE IF ~resp.ok THEN
        Thrown(<<"HTTP error! status: ">> \o resp.status
               \o <<", response: ">> \o resp.text)
    ELSE IF resp.json = "invalid" THEN Thrown(<<"SyntaxError">>)
    ELSE IF resp.json = "null" THEN Thrown(<<"TypeError">>)
    ELSE Returned(resp.data)

makeRequest(resp) ==
    IF resp.kind = "neterr" THEN Thrown(resp.text)
    ELSE IF ~resp.ok THEN
        Thrown(<<"HTTP error! status: ">> \o resp.status
               \o <<", response: ">> \o resp.text)
    ELSE IF resp.json = "invalid" THEN Thrown(<<"SyntaxError">>)
    ELSE IF resp.json = "null" THEN Thrown(<<"TypeError">>)
    ELSE IF resp.hasErrors /\ Len(resp.errors) > 0 THEN
        Thrown(<<"Monday.com API error: ">> \o errorMessages(resp.errors))
    ELSE Returned(resp.data)

-----------------------------------------------------------------------------
(* ClaimWebApp.getYearGroupId (app.js:1114-1138, app.js:2295-2317) *)

\* a board as getBoardWithGroups returns it; groups is a list of {id, title}
Board(groups) == [isNull |-> FALSE, hasGroups |-> TRUE, groups |-> groups]
NullBoard == [isNull |-> TRUE, hasGroups |-> FALSE, groups |-> <<>>]
BoardWithoutGroups == [isNull |-> FALSE, hasGroups |-> FALSE, groups |-> <<>>]

\* groups.find(pred): the index of the first element satisfying pred, or 0
Find(groups, pred(_)) ==
    IF \E i \in 1..Len(groups) : pred(groups[i])
    THEN CHOOSE i \in 1..Len(groups) :
            pred(groups[i]) /\ \A j \in 1..(i - 1) : ~pred(groups[j])
    ELSE 0

\* a lookup that tries the partial match before the current year
getYearGroupId_PartialFirst(board, year, currentYear) ==
    IF board.isNull \/ ~board.hasGroups THEN Null
    ELSE LET gs == board.groups
             exact == Find(gs, LAMBDA g : g.title = year)
             current == Find(gs, LAMBDA g : g.title = currentYear)
             partial == Find(gs, LAMBDA g : Includes(g.title, year))
         IN IF exact # 0 THEN gs[exact].id
            ELSE IF partial # 0 THEN gs[partial].id
            ELSE IF current # 0 THEN gs[current].id
            ELSE IF Len(gs) > 0 THEN gs[1].id
            ELSE Null

getYearGroupId(board, year, currentYear) ==
    IF board.isNull \/ ~board.hasGroups THEN Null
    ELSE LET gs == board.groups
             exact == Find(gs, LAMBDA g : g.title = year)
             current == Find(gs, LAMBDA g : g.title = currentYear)
             partial == Find(gs, LAMBDA g : Includes(g.title, year))
         IN IF exact # 0 THEN gs[exact].id
            ELSE IF current # 0 THEN gs[current].id
            ELSE IF partial # 0 THEN gs[partial].id
            ELSE IF Len(gs) > 0 THEN gs[1].id
            ELSE Null

MaxGroups == 3

Years == {<<"2025">>, <<"2026">>}
Titles == {<<"2025">>, <<"2026">>, <<"FY", "2025">>, <<"2026", " claims">>,
           <<"Archive">>}
GroupIds == <<"g1", "g2", "g3", "g4", "g5">>

RECURSIVE TitleLists(_)
TitleLists(n) ==
    IF n = 0 THEN {<<>>}
    ELSE LET shorter == TitleLists(n - 1)
         IN shorter \cup {Append(ts, t) : ts \in {x \in shorter : Len(x) = n - 1},
                                          t \in Titles}

\* the boards the remote can return: groups in any order, ids by position
GroupsOf(ts) == [i \in 1..Len(ts) |-> [id |-> <<GroupIds[i]>>, title |-> ts[i]]]
Boards ==
    {NullBoard, BoardWithoutGroups} \cup {Board(GroupsOf(ts)) : ts \in TitleLists(MaxGroups)}

GrpIdle ==
    /\ gBoard = NullBoard
    /\ gYear = <<>>
    /\ gCurrentYear = <<>>
    /\ gPc = "input"
    /\ gResult = Null

GrpInit ==
    /\ gBoard \in Boards
    /\ gYear \in Years
    /\ gCurrentYear \in Years
    /\ gPc = "input"
    /\ gResult = Null

GetYearGroupId ==
    /\ gPc = "input"
    /\ gPc' = "done"
    /\ gResult' = getYearGroupId(gBoard, gYear, gCurrentYear)
    /\ UNCHANGED <<gBoard, gYear, gCurrentYear>>
    /\ UNCHANGED <<gwVars, mrVars, pgVars, srvVars, appVars, normVars, uiVars, memVars, auxVars>>

-----------------------------------------------------------------------------
(* MondayClient: constructor, setApiKey, makeRequest *)

ApiKeys == {<<>>, <<"key1">>}

ErrorLists == {<<>>, << <<"e1">> >>, << <<"e1">>, <<"e2">> >>}

\* what the remote can answer to a request that is no items query
PlainAnswers ==
    {NetworkError(<<"Failed to fetch">>), HttpError(<<"500">>, <<"oops">>),
     HttpBody("invalid", FALSE, <<>>, NoData),
     HttpBody("null", FALSE, <<>>, NoData)}
    \cup {HttpBody("object", h, e, d) :
            h \in BOOLEAN, e \in ErrorLists,
            d \in {NoData, Data("noboards", <<>>, Null),
                   Data("page", <<1>>, Null)}}

MaxCalls == 3

ClientInit ==
    /\ apiKey = Null

MrIdle ==
    /\ mrPc = "idle"
    /\ mrResult = NoData
    /\ mrError = <<>>
    /\ netRequests = 0
    /\ mrCalls = 0
    /\ lastResponse = NoResponse
    /\ mrKey = Null
    /\ netBefore = 0

setApiKey(k) ==
    /\ apiKey' = k

\* makeRequest up to its first await: the key check and the fetch() call
MakeRequestCall ==
    /\ mrPc # "fetching"
    /\ mrCalls < MaxCalls
    /\ mrCalls' = mrCalls + 1
    /\ mrKey' = apiKey
    /\ netBefore' = netRequests
    /\ lastResponse' = NoResponse
    /\ mrResult' = NoData
    /\ IF ~Truthy(apiKey)
       THEN /\ mrPc' = "thrown"
            /\ mrError' = <<"API key not set">>
            /\ netRequests' = netRequests
       ELSE /\ mrPc' = "fetching"
            /\ mrError' = <<>>
            /\ netRequests' = netRequests + 1

\* makeRequest from the moment fetch() settles to its return or throw
MakeRequestSettle(resp) ==
    /\ mrPc = "fetching"
    /\ lastResponse' = resp
    /\ LET out == makeRequest(resp) IN
        /\ mrPc' = IF out.ok THEN "returned" ELSE "thrown"
        /\ mrResult' = out.data
        /\ mrError' = out.message
    /\ UNCHANGED <<netRequests, mrCalls, mrKey, netBefore>>

PgIdle ==
    /\ fn = "none"
    /\ limit = 0
    /\ pgPc = "idle"
    /\ allItems = <<>>
    /\ cursor = Null
    /\ page = 1
    /\ pgResult = <<>>
    /\ pgError = <<>>
    /\ pgRequests = 0
    /\ sentCursor = Null

SrvIdle ==
    /\ served = <<>>
    /\ answered = 0
    /\ lastCursor = Null
    /\ allFull = TRUE
    /\ stopSeen = FALSE
    /\ failedAt = 0

ReqSetApiKey == \E k \in ApiKeys : setApiKey(k) /\ UNCHANGED <<mrVars, pgVars, srvVars, grpVars, appVars, normVars, uiVars, memVars, auxVars>>
ReqCall == MakeRequestCall /\ UNCHANGED <<gwVars, pgVars, srvVars, grpVars, appVars, normVars, uiVars, memVars, auxVars>>
ReqSettle ==
    \E resp \in PlainAnswers :
        MakeRequestSettle(resp) /\ UNCHANGED <<gwVars, pgVars, srvVars, grpVars, appVars, normVars, uiVars, memVars, auxVars>>

InitReq == ClientInit /\ MrIdle /\ PgIdle /\ SrvIdle /\ GrpIdle /\ AppIdle /\ NormIdle /\ UiIdle /\ MemIdle /\ AuxIdle
NextReq == ReqSetApiKey \/ ReqCall \/ ReqSettle
SpecReq == InitReq /\ [][NextReq]_vars

-----------------------------------------------------------------------------
(* MondayClient.queryItemsPaginated (monday-client.js:795-903) and          *)
(* MondayClient.queryAllItemsInGroup (monday-client.js:111-212)             *)

pageSize == 500
maxPages == 20
safetyLimit == 10
loadLimit == 200

PageSizeOf(f) == IF f = "queryItemsPaginated" THEN pageSize ELSE loadLimit
MaxPagesOf(f) == IF f = "queryItemsPaginated" THEN maxPages ELSE safetyLimit

Cursors == {Null, <<>>, <<"c1">>, <<"c2">>}

\* the items of a page of n items: the next n items of the group
PageItems(n) == [i \in 1..n |-> Len(served) + i]

\* what the remote can answer to an items_page query asking for lim items
PageAnswers(lim) ==
    {NetworkError(<<"Failed to fetch">>), HttpError(<<"500">>, <<"oops">>),
     HttpBody("invalid", FALSE, <<>>, NoData),
     HttpBody("object", TRUE, << <<"e1">> >>, NoData),
     HttpBody("object", FALSE, <<>>, NoData)}
    \cup {HttpBody("object", FALSE, <<>>, Data(sh, <<>>, Null)) :
            sh \in {"noboards", "nogroups", "nopage"}}
    \cup {HttpBody("object", FALSE, <<>>, Data("nullitems", <<>>, c)) :
            c \in Cursors}
    \cup {HttpBody("object", FALSE, <<>>, Data("page", PageItems(n), c)) :
            n \in {0, 1, lim - 1, lim}, c \in Cursors}

\* a stop test that needs both conditions
ShouldStop_BothNeeded(cur, n, lim) == ~Truthy(cur) /\ n < lim

\* if (!itemsPage.cursor || pageItems.length < pageSize) break;
ShouldStop(cur, n, lim) == ~Truthy(cur) \/ n < lim

\* a ceiling test that is off by one
ReachedSafetyLimit_OffByOne(f, p) == p >= MaxPagesOf(f)

\* if (page > maxPages) break;
ReachedSafetyLimit(f, p) == p > MaxPagesOf(f)

\* allItems = allItems.concat(pageItems)
Concat(all, pageItems) == all \o pageItems

\* a catch block that swallows the error and returns what was fetched
OnPageError_ReturnsPartial(message) ==
    /\ pgPc' = "returned"
    /\ pgError' = <<>>
    /\ pgResult' = allItems
    /\ UNCHANGED <<allItems, cursor, page>>

\* the catch block of the loop body: throw error
OnPageError(message) ==
    /\ pgPc' = "rejected"
    /\ pgError' = message
    /\ pgResult' = <<>>
    /\ UNCHANGED <<allItems, cursor, page>>

\* break, then return allItems
ReturnAllItems(all) ==
    /\ pgPc' = "returned"
    /\ pgResult' = all
    /\ pgError' = <<>>

\* the top of the loop body: makeRequest(query, variables) up to fetch()
PageRequest ==
    /\ pgRequests' = pgRequests + 1
    /\ sentCursor' = cursor'
    /\ IF ~Truthy(apiKey)
       THEN /\ OnPageError(<<"API key not set">>)
            /\ failedAt' = pgRequests'
            /\ netRequests' = netRequests
       ELSE /\ pgPc' = "await"
            /\ failedAt' = failedAt
            /\ netRequests' = netRequests + 1
            /\ UNCHANGED <<allItems, page, pgResult, pgError>>

\* the call: let allItems = [], cursor = null, page = 1, then the first request
QueryCall(f) ==
    /\ pgPc = "idle"
    /\ fn' = f
    /\ limit' = PageSizeOf(f)
    /\ cursor' = Null
    /\ IF ~Truthy(apiKey) THEN TRUE ELSE allItems' = <<>> /\ page' = 1
    /\ PageRequest
    /\ UNCHANGED <<served, answered, lastCursor, allFull, stopSeen>>

\* after the delay between two pages: the next turn of the loop
QueryNextPage ==
    /\ pgPc = "delay"
    /\ cursor' = cursor
    /\ PageRequest
    /\ UNCHANGED <<fn, limit, served, answered, lastCursor, allFull, stopSeen>>

\* the rest of the loop body, from the answer to a page request
QueryAnswer(resp) ==
    /\ pgPc = "await"
    /\ answered' = answered + 1
    /\ lastResponse' = resp
    /\ LET out == makeRequest(resp)
           d == out.data
           isPage == out.ok /\ d.shape \in {"page", "nullitems"}
           pageItems == IF d.shape = "page" THEN d.items ELSE <<>>
       IN
        /\ served' = IF isPage THEN served \o pageItems ELSE served
        /\ lastCursor' = IF isPage THEN d.cursor ELSE Null
        /\ allFull' = (allFull /\ isPage /\ Len(pageItems) = limit
                        /\ d.cursor \notin {Null, <<>>})
        /\ stopSeen' = (stopSeen \/ (isPage /\ (d.cursor \in {Null, <<>>}
                                                  \/ Len(pageItems) < limit)))
        /\ IF ~out.ok THEN
              /\ OnPageError(out.message)
              /\ failedAt' = pgRequests
           ELSE IF d.shape = "undefined" THEN
              \* data.boards of undefined: a TypeError inside the try
              /\ OnPageError(<<"TypeError">>)
              /\ failedAt' = pgRequests
           ELSE IF d.shape \in {"noboards", "nogroups", "nopage"} THEN
              /\ ReturnAllItems(allItems)
              /\ UNCHANGED <<allItems, cursor, page, failedAt>>
           ELSE
              /\ allItems' = Concat(allItems, pageItems)
              /\ failedAt' = failedAt
              /\ IF ShouldStop(d.cursor, Len(pageItems), limit) THEN
                    /\ ReturnAllItems(allItems')
                    /\ UNCHANGED <<cursor, page>>
                 ELSE
                    /\ cursor' = d.cursor
                    /\ page' = page + 1
                    /\ IF ReachedSafetyLimit(fn, page')
                       THEN ReturnAllItems(allItems')
                       ELSE pgPc' = "delay" /\ UNCHANGED <<pgResult, pgError>>
    /\ UNCHANGED <<fn, limit, pgRequests, sentCursor, netRequests>>

PgSetApiKey ==
    \E k \in ApiKeys :
        /\ setApiKey(k)
        /\ UNCHANGED <<mrVars, pgVars, srvVars, grpVars, appVars, normVars, uiVars, memVars, auxVars>>
PgCall ==
    \E f \in {"queryItemsPaginated", "queryAllItemsInGroup"} :
        /\ QueryCall(f)
        /\ UNCHANGED <<gwVars, mrPc, mrResult, mrError, mrCalls, lastResponse,
                       mrKey, netBefore, grpVars, appVars, normVars, uiVars, memVars, auxVars>>
PgNextPage ==
    /\ QueryNextPage
    /\ UNCHANGED <<gwVars, mrPc, mrResult, mrError, mrCalls, lastResponse,
                   mrKey, netBefore, grpVars, appVars, normVars, uiVars, memVars, auxVars>>
PgAnswer ==
    \E resp \in PageAnswers(limit) :
        /\ QueryAnswer(resp)
        /\ UNCHANGED <<gwVars, mrPc, mrResult, mrError, mrCalls, mrKey, netBefore,
                       grpVars, appVars, normVars, uiVars, memVars, auxVars>>

InitPage == ClientInit /\ MrIdle /\ PgIdle /\ SrvIdle /\ GrpIdle /\ AppIdle /\ NormIdle /\ UiIdle /\ MemIdle /\ AuxIdle
NextPage == PgSetApiKey \/ PgCall \/ PgNextPage \/ PgAnswer
SpecPage == InitPage /\ [][NextPage]_vars

-----------------------------------------------------------------------------
(* Properties of the gateway *)

\* the request failed in transport or was answered with GraphQL errors
HttpFailure(resp) == resp.kind = "http" /\ ~resp.ok
GraphQLFailure(resp) ==
    resp.kind = "http" /\ resp.ok /\ resp.json = "object"
    /\ resp.hasErrors /\ Len(resp.errors) > 0
NoHttpResponse(resp) == resp.kind = "neterr"
NoJsonObject(resp) ==
    resp.kind = "http" /\ resp.ok /\ resp.json \in {"invalid", "null"}
RequestFails(resp) ==
    NoHttpResponse(resp) \/ HttpFailure(resp) \/ NoJsonObject(resp)
    \/ GraphQLFailure(resp)

\* C1: against a remote that answers every page request with a full page and
\* a non-empty cursor, queryItemsPaginated issues exactly maxPages requests,
\* then returns (does not reject) the concatenation of the pages it fetched.
C1_CeilingEndsFetch ==
    (fn = "queryItemsPaginated" /\ allFull /\ failedAt = 0) =>
        /\ pgPc # "rejected"
        /\ pgRequests <= maxPages
        /\ (pgPc = "returned") <=> (answered = maxPages)
        /\ pgPc = "returned" =>
              /\ pgRequests = maxPages
              /\ pgResult = served
              /\ Len(pgResult) = maxPages * pageSize

C1_Witness ==
    /\ fn = "queryItemsPaginated"
    /\ allFull
    /\ pgPc = "returned"
    /\ answered = maxPages
    /\ Len(pgResult) = maxPages * pageSize

\* C2: every page request carries the cursor of the page before it (none for
\* the first); the fetch goes on until the first page with no cursor or fewer
\* items than the page size, issues no request after it, and returns the
\* concatenation of the pages up to and including it.
C2_CursorChain ==
    /\ pgPc = "await" => sentCursor = lastCursor
    /\ stopSeen =>
          /\ pgPc = "returned"
          /\ pgRequests = answered
          /\ pgResult = served
    /\ (pgPc = "returned" /\ answered < MaxPagesOf(fn)) =>
          \/ stopSeen
          \/ lastResponse.data.shape \in {"noboards", "nogroups", "nopage"}

C2_Witness ==
    /\ stopSeen
    /\ pgPc = "returned"
    /\ answered = 3
    /\ lastCursor # Null
    /\ Len(pgResult) = 2 * limit + 1

\* C3: when the request for a page fails (transport or GraphQL error) the
\* fetch rejects with that error, returns none of the items of the earlier
\* pages, and issues no further request (the failed one is not repeated).
C3_PageFailureAborts ==
    /\ (answered >= 1 /\ RequestFails(lastResponse)) =>
          /\ pgPc = "rejected"
          /\ pgResult = <<>>
          /\ pgError = makeRequest(lastResponse).message
          /\ pgError # <<>>
          /\ pgRequests = answered
    /\ failedAt # 0 =>
          /\ pgPc = "rejected"
          /\ pgResult = <<>>
          /\ pgRequests = failedAt

C3_Witness ==
    /\ pgPc = "rejected"
    /\ answered = 3
    /\ Len(allItems) = 2 * limit
    /\ GraphQLFailure(lastResponse)
    /\ pgResult = <<>>

\* C4 (as stated): without a key makeRequest fails and sends nothing; with a
\* key it fails exactly when the response is non-2xx or the body carries a
\* non-empty errors array, the message holding every upstream message; in
\* every other case it returns the body's data.
C4_FailsOnlyOnHttpOrGraphQLError ==
    mrPc \in {"returned", "thrown"} =>
        /\ ~Truthy(mrKey) => (mrPc = "thrown" /\ netRequests = netBefore)
        /\ Truthy(mrKey) =>
              /\ (mrPc = "thrown") <=>
                    (HttpFailure(lastResponse) \/ GraphQLFailure(lastResponse))
              /\ mrPc = "returned" => mrResult = lastResponse.data

\* C4 (amended): without a key makeRequest fails and sends nothing; with a
\* key it sends one request and fails exactly when fetch rejects, the
\* response is non-2xx, the body is no JSON document or is null, or the body
\* carries a non-empty errors array (the message then holds every upstream
\* message, joined); in every other case it returns the body's data.
C4_MakeRequest ==
    mrPc \in {"returned", "thrown"} =>
        /\ ~Truthy(mrKey) =>
              /\ mrPc = "thrown"
              /\ mrError = <<"API key not set">>
              /\ netRequests = netBefore
        /\ Truthy(mrKey) =>
              /\ netRequests = netBefore + 1
              /\ (mrPc = "thrown") <=> RequestFails(lastResponse)
              /\ (mrPc = "thrown" /\ GraphQLFailure(lastResponse)) =>
                    /\ \A i \in 1..Len(lastResponse.errors) :
                          Includes(mrError, lastResponse.errors[i])
                    /\ Includes(mrError, <<", ">>)
                          <=> (Len(lastResponse.errors) > 1)
              /\ mrPc = "returned" => mrResult = lastResponse.data

C4_Witness ==
    /\ mrPc = "thrown"
    /\ Truthy(mrKey)
    /\ GraphQLFailure(lastResponse)
    /\ Len(lastResponse.errors) = 2

-----------------------------------------------------------------------------
(* Properties of getYearGroupId *)

InitGroup == ClientInit /\ MrIdle /\ PgIdle /\ SrvIdle /\ GrpInit /\ AppIdle /\ NormIdle /\ UiIdle /\ MemIdle /\ AuxIdle
NextGroup == GetYearGroupId
SpecGroup == InitGroup /\ [][NextGroup]_vars

TitleEquals(y) == {i \in 1..Len(gBoard.groups) : gBoard.groups[i].title = y}
TitleContains(y) == {i \in 1..Len(gBoard.groups) : Includes(gBoard.groups[i].title, y)}
Lowest(S) == CHOOSE i \in S : \A j \in S : i <= j

\* C9: getYearGroupId returns the id of the first group titled with the
\* requested year; failing that the first titled with the current calendar
\* year; failing that the first whose title contains the requested year;
\* failing that the board's first group.
C9_GroupResolutionOrder ==
    (gPc = "done" /\ Len(gBoard.groups) > 0) =>
        gResult = gBoard.groups[
            IF TitleEquals(gYear) # {} THEN Lowest(TitleEquals(gYear))
            ELSE IF TitleEquals(gCurrentYear) # {} THEN Lowest(TitleEquals(gCurrentYear))
            ELSE IF TitleContains(gYear) # {} THEN Lowest(TitleContains(gYear))
            ELSE 1].id

C9_Witness ==
    /\ gPc = "done"
    /\ TitleEquals(gYear) = {}
    /\ TitleEquals(gCurrentYear) = {3}
    /\ TitleContains(gYear) = {2}
    /\ gResult = <<"g3">>

-----------------------------------------------------------------------------
(* The CustomerWorkMemory (src/app.js:44-170) and the handlers of its modal *)
(* (src/app.js:1426-1765). this.customerWorkPairs, a Map from customer to   *)
(* a Set of work items, is a function from customers to sets; the arrays    *)
(* written to localStorage are the sets of their elements.                  *)

\* the memory and the two localStorage items, as one value
Memory(pairs, expired, stored, storedExp) ==
    [pairs |-> pairs, expired |-> expired, stored |-> stored, storedExp |-> storedExp]

\* `${customer}|${workItem}`
pairKey(customer, workItem) == customer \o <<"|">> \o workItem

\* what the two localStorage.setItem calls of saveCustomerWorkPairs do: both
\* go through, or the second throws, or the first throws (storage full or
\* unavailable); the catch logs it
WriteOutcomes == {"both", "first", "none"}

\* a saveCustomerWorkPairs that never writes the expired set
saveCustomerWorkPairs_PairsOnly(m, q) ==
    [m EXCEPT !.stored = IF q \in {"both", "first"}
                         THEN [present |-> TRUE, v |-> m.pairs] ELSE @]

\* saveCustomerWorkPairs()
saveCustomerWorkPairs(m, q) ==
    [m EXCEPT !.stored = IF q \in {"both", "first"}
                         THEN [present |-> TRUE, v |-> m.pairs] ELSE @,
              !.storedExp = IF q = "both"
                            THEN [present |-> TRUE, v |-> m.expired] ELSE @]

\* loadCustomerWorkPairs(): the memory the constructor builds from the storage
loadCustomerWorkPairs(stored, storedExp) ==
    Memory(IF stored.present THEN stored.v ELSE <<>>,
           IF storedExp.present THEN storedExp.v ELSE {},
           stored, storedExp)

\* an addCustomerWorkPair for which a pair seen again is no longer expired
addCustomerWorkPair_Unexpires(m, customer, workItem, q) ==
    IF ~Truthy(customer) \/ ~Truthy(workItem)
       \/ customer = NullText \/ workItem = NullText
    THEN m
    ELSE saveCustomerWorkPairs(
            [m EXCEPT !.expired = @ \ {pairKey(customer, workItem)},
                      !.pairs =
                IF customer \in DOMAIN m.pairs
                THEN [m.pairs EXCEPT ![customer] = @ \cup {workItem}]
                ELSE m.pairs @@ (customer :> {workItem})], q)

\* addCustomerWorkPair(customer, workItem)
addCustomerWorkPair(m, customer, workItem, q) ==
    IF ~Truthy(customer) \/ ~Truthy(workItem)
       \/ customer = NullText \/ workItem = NullText
    THEN m
    ELSE IF pairKey(customer, workItem) \in m.expired THEN m
    ELSE saveCustomerWorkPairs(
            [m EXCEPT !.pairs =
                IF customer \in DOMAIN m.pairs
                THEN [m.pairs EXCEPT ![customer] = @ \cup {workItem}]
                ELSE m.pairs @@ (customer :> {workItem})], q)

\* removeCustomerWorkPair(customer, workItem)
removeCustomerWorkPair(m, customer, workItem, q) ==
    IF customer \notin DOMAIN m.pairs THEN m
    ELSE saveCustomerWorkPairs(
            [m EXCEPT !.pairs =
                IF m.pairs[customer] \ {workItem} = {}
                THEN [c \in DOMAIN m.pairs \ {customer} |-> m.pairs[c]]
                ELSE [m.pairs EXCEPT ![customer] = @ \ {workItem}]], q)

\* markPairAsExpired(customer, workItem)
markPairAsExpired(m, customer, workItem, q) ==
    saveCustomerWorkPairs(
        removeCustomerWorkPair(
            [m EXCEPT !.expired = @ \cup {pairKey(customer, workItem)}],
            customer, workItem, q), q)

\* unmarkPairAsExpired(customer, workItem)
unmarkPairAsExpired(m, customer, workItem, q) ==
    saveCustomerWorkPairs(
        [m EXCEPT !.expired = @ \ {pairKey(customer, workItem)}], q)

\* getCustomerWorkPairs(): the pairs of the active list
getCustomerWorkPairs(m) ==
    {pr \in UNION {{<<c, w>> : w \in m.pairs[c]} : c \in DOMAIN m.pairs} :
        pairKey(pr[1], pr[2]) \notin m.expired}
\* getCustomers() and getWorkItemsForCustomer(customer)
getCustomers(m) == DOMAIN m.pairs
getWorkItemsForCustomer(m, customer) ==
    IF customer \in DOMAIN m.pairs THEN m.pairs[customer] ELSE {}
\* the pairs the form's autocomplete can lead to: showCustomerSuggestions
\* offers the customers that contain the text typed, and, once one is picked,
\* showWorkItemSuggestions offers its work items
Suggested(m) ==
    UNION {{<<c, w>> : w \in getWorkItemsForCustomer(m, c)} : c \in getCustomers(m)}

\* the customers and work items of the model
Customers == {<<"Acme">>, <<"Beta">>}
WorkItems == {<<"WI-1">>, <<"WI-2">>}
\* what the forms and the extracted columns can hold besides: nothing, 'null'
Typed(names) == names \cup {<<>>, NullText}

\* an entry of the active or expired array of an import file: a pair, or null
FilePair(customer, workItem) ==
    [isNull |-> FALSE, customer |-> customer, workItem |-> workItem]
FileNull == [isNull |-> TRUE, customer |-> Null, workItem |-> Null]
\* the files handed to importCustomerWorkPairs: an export of another browser,
\* a file that lists a pair as active and as expired, files with a null entry,
\* a file with no expired array, and one that is no JSON
ImportFiles ==
    {[ok |-> TRUE, active |-> <<FilePair(<<"Beta">>, <<"WI-2">>)>>,
      hasExpired |-> TRUE, expired |-> <<FilePair(<<"Acme">>, <<"WI-1">>)>>],
     [ok |-> TRUE, active |-> <<FilePair(<<"Acme">>, <<"WI-1">>)>>,
      hasExpired |-> TRUE, expired |-> <<FilePair(<<"Acme">>, <<"WI-1">>)>>],
     [ok |-> TRUE, active |-> <<>>,
      hasExpired |-> TRUE, expired |-> <<FilePair(<<"Beta">>, <<"WI-1">>), FileNull>>],
     [ok |-> TRUE, active |-> <<FilePair(<<"Acme">>, <<"WI-2">>), FileNull>>,
      hasExpired |-> TRUE, expired |-> <<FilePair(<<"Beta">>, <<"WI-2">>)>>],
     [ok |-> TRUE, active |-> <<FilePair(<<"Acme">>, <<"WI-2">>)>>,
      hasExpired |-> FALSE, expired |-> <<>>],
     [ok |-> FALSE, active |-> <<>>, hasExpired |-> FALSE, expired |-> <<>>]}

\* data.active.forEach(...): the memory after the entries from i on, and
\* whether reading a null entry threw
RECURSIVE ImportActive(_, _, _, _)
ImportActive(m, active, i, q) ==
    IF i > Len(active) THEN [threw |-> FALSE, m |-> m]
    ELSE IF active[i].isNull THEN [threw |-> TRUE, m |-> m]
    ELSE ImportActive(
            IF Truthy(active[i].customer) /\ Truthy(active[i].workItem)
            THEN addCustomerWorkPair(m, active[i].customer, active[i].workItem, q)
            ELSE m,
            active, i + 1, q)

\* data.expired.forEach(...): the keys are added to this.expiredPairs
RECURSIVE ImportExpired(_, _, _)
ImportExpired(m, expired, i) ==
    IF i > Len(expired) THEN [threw |-> FALSE, m |-> m]
    ELSE IF expired[i].isNull THEN [threw |-> TRUE, m |-> m]
    ELSE ImportExpired(
            IF Truthy(expired[i].customer) /\ Truthy(expired[i].workItem)
            THEN [m EXCEPT !.expired =
                    @ \cup {pairKey(expired[i].customer, expired[i].workItem)}]
            ELSE m,
            expired, i + 1)

\* an import that takes the pairs it marks expired out of the map
importCustomerWorkPairs_RemovesExpired(m, file, q) ==
    LET a == ImportActive(m, file.active, 1, q)
        e == ImportExpired(a.m, file.expired, 1)
    IN IF ~file.ok THEN m
       ELSE IF a.threw THEN a.m
       ELSE IF ~file.hasExpired THEN a.m
       ELSE saveCustomerWorkPairs(
                [e.m EXCEPT !.pairs =
                    [c \in {c \in DOMAIN e.m.pairs :
                                \E w \in e.m.pairs[c] : pairKey(c, w) \notin e.m.expired}
                        |-> {w \in e.m.pairs[c] : pairKey(c, w) \notin e.m.expired}]], q)

\* the reader.onload handler of importCustomerWorkPairs(file): an exception
\* ends it in the catch, with what was done so far left in place
importCustomerWorkPairs(m, file, q) ==
    LET a == ImportActive(m, file.active, 1, q)
        e == ImportExpired(a.m, file.expired, 1)
    IN IF ~file.ok THEN m
       ELSE IF a.threw THEN a.m
       ELSE IF ~file.hasExpired THEN a.m
       ELSE IF e.threw THEN e.m
       ELSE saveCustomerWorkPairs(e.m, q)

\* the saveEdit handler of openEditPairModal
saveEdit(m, oldCustomer, oldWorkItem, newCustomer, newWorkItem, q) ==
    IF ~Truthy(newCustomer) \/ ~Truthy(newWorkItem) THEN m
    ELSE LET removed == removeCustomerWorkPair(m, oldCustomer, oldWorkItem, q)
             deleted == [removed EXCEPT
                            !.expired = @ \ {pairKey(oldCustomer, oldWorkItem)}]
         IN addCustomerWorkPair(deleted, newCustomer, newWorkItem, q)

\* the memory of the app, and the app taking on a memory
Mem == Memory(customerWorkPairs, expiredPairs, storedPairs, storedExpired)
Becomes(m) ==
    /\ customerWorkPairs' = m.pairs
    /\ expiredPairs' = m.expired
    /\ storedPairs' = m.stored
    /\ storedExpired' = m.storedExp

\* the pairs of the entries of a WeekIndex
PairsOf(index) ==
    UNION {{<<index[d][k].customer, index[d][k].workItem>> : k \in 1..Len(index[d])} :
                d \in DOMAIN index}
\* this.addCustomerWorkPair(entryData.customer, entryData.workItem) for each
\* of the pairs filed
RECURSIVE LearnAll(_, _, _)
LearnAll(m, pairs, q) ==
    IF pairs = {} THEN m
    ELSE LET pr == CHOOSE pr \in pairs : TRUE
         IN LearnAll(addCustomerWorkPair(m, pr[1], pr[2], q), pairs \ {pr}, q)
\* the memory once processItemsWithDebug has filed the entries of index; the
\* revision of processItems has no memory
Learned(m, index, r, q) == IF r = "A" THEN LearnAll(m, PairsOf(index), q) ELSE m
\* what localStorage.setItem does while the app loads and saves
AppWrites == {"both"}

-----------------------------------------------------------------------------
(* Normalization on its own: processItems / processItemsWithDebug applied   *)
(* to item lists                                                            *)

MaxItems == 2

\* the user the API key belongs to: data.me, with its id as a number and as a
\* string
Users == {[id |-> id, name |-> <<"Ann">>, email |-> <<"ann@x.io">>] : id \in UserIds}

\* a browser's time zone and the time the app was constructed at:
\* Wednesday 2025-01-22 12:00 UTC; Monday 2025-01-20 01:00 at UTC+2;
\* Sunday 2025-01-26 22:00 at UTC-5
Clocks == {[tz |-> 0, now |-> 396], [tz |-> 2, now |-> 335], [tz |-> -5, now |-> 507]}

\* the columns that carry the details of a claim
DetailColumns ==
    <<Col("status", JSONstringify(JObj(<< <<"index", JNum(3)>> >>)), <<"Education">>),
      Col("text__1", JSONstringify(JStr(<<"Acme">>)), <<"Acme">>),
      Col("text8__1", Null, <<"WI-1">>),
      Col("numbers__1", JSONstringify(JStr(<<"8">>)), <<"8">>)>>

\* the value and text of a person column
PersonCells ==
    {<<Null, Null>>,
     <<JSONstringify(PersonsAndTeams(JArr(<<Person(JNum(77))>>))), <<"Bob">> >>,
     <<JSONstringify(PersonsAndTeams(JArr(<<Person(JStr(<<"77">>))>>))), Null>>,
     <<JSONstringify(PersonsAndTeams(JArr(<<Person(JNum(88))>>))), <<"Bob">> >>,
     <<JSONstringify(PersonsAndTeams(JArr(<<JNull, Person(JNum(77))>>))), Null>>,
     <<JSONstringify(PersonsAndTeams(JStr(<<"77">>))), <<>> >>,
     <<NullText, <<"Ann">> >>,
     <<Null, <<"Bob", " <", "ann@x.io", ">">> >>,
     <<<<"{", "oops">>, <<"Bob">> >>,
     <<Null, JSONstringify(PersonsAndTeams(JArr(<<Person(JNum(77))>>)))>>}

\* the value and text of a date4 column
DateCells ==
    {<<JSONstringify(DateValue(JStr(<<"2025-01-22">>))), <<"2025-01-22">> >>,
     <<JSONstringify(DateValue(JStr(<<"2025-01-22", "T", "10:00:00Z">>))), Null>>,
     <<JSONstringify(DateValue(JStr(<<"2025-01-13">>))), <<"2025-01-22">> >>,
     <<JSONstringify(DateValue(JStr(<<"2025-01-19">>))), Null>>,
     <<JSONstringify(DateValue(JStr(<<"2025-01-27">>))), Null>>,
     <<Null, <<"2025-01-25">> >>,
     <<NullText, <<"2025-01-26", "T", "08:00:00Z">> >>,
     <<JSONstringify(DateValue(JNum(5))), <<"2025-01-20">> >>,
     <<JSONstringify(DateValue(JStr(<<"22/01/2025">>))), <<"2025-01-22">> >>,
     <<JSONstringify(DateValue(JStr(<<"T", "10:00:00Z">>))), <<"2025-01-22">> >>,
     <<Null, <<"22/01/2025">> >>}

WednesdayCell == <<JSONstringify(DateValue(JStr(<<"2025-01-22">>))), <<"2025-01-22">> >>

\* the items of the board: other people's and nobody's items dated in the
\* week, the user's items with every date cell, and items short of columns
NormItems ==
    {Item("0", <<"Bob">>, TRUE,
          <<Col("person", p[1], p[2]), Col("date4", WednesdayCell[1], WednesdayCell[2])>>
          \o DetailColumns) : p \in PersonCells}
    \cup {Item("0", <<"Ann", " - ", "w4">>, TRUE,
               <<Col("date4", d[1], d[2])>> \o DetailColumns) : d \in DateCells}
    \cup {Item("0", <<"Ann">>, FALSE, <<>>),
          Item("0", <<"Ann">>, TRUE, DetailColumns),
          Item("0", Null, TRUE,
               <<Col("date4", WednesdayCell[1], WednesdayCell[2])>> \o DetailColumns)}

\* item ids as the API gives them: strings, one per item
WithIds(items) == [i \in 1..Len(items) |-> [items[i] EXCEPT !.id = ToString(1000 + i)]]
NormItemLists == UNION {{WithIds(l) : l \in [1..n -> NormItems]} : n \in 0..MaxItems}

\* this.entries before the call: it holds an entry of the week before
StaleIndex ==
    (<<"2025-01-13">> :>
        <<[id |-> "999", activityType |-> 1, customer |-> <<"Acme">>,
           workItem |-> <<"WI-0">>, comment |-> <<>>, hours |-> <<"4">>]>>)

NormInit ==
    /\ rev \in {"A", "B"}
    /\ \E c \in Clocks : tz = c.tz /\ currentWeekStart = getMonday(c.now, c.tz)
    /\ user \in Users
    /\ entries = StaleIndex
    /\ keyPc = "idle" /\ loads = <<>> /\ saves = <<>>
    /\ lastWrite = 0
    /\ nItems \in NormItemLists
    /\ nPc = "input"

\* this.processItemsWithDebug(items) / this.processItems(items): the entries
\* filed, and in the revision of processItemsWithDebug their pairs learned
ProcessItems ==
    /\ nPc = "input"
    /\ LET written ==
                IF ToISOStringThrows(currentWeekStart) THEN EmptyIndex
                ELSE IF rev = "A"
                THEN processItemsWithDebug(Processed(nItems, user, rev), user,
                                           currentWeekStart)
                ELSE processItems(Processed(nItems, user, rev), user,
                                  currentWeekStart)
       IN /\ entries' = written
          /\ \E q \in AppWrites : Becomes(Learned(Mem, written, rev, q))
    /\ nPc' = IF ToISOStringThrows(currentWeekStart)
                 \/ Processed(nItems, user, rev) # nItems
              THEN "thrown" ELSE "done"
    /\ UNCHANGED <<rev, tz, user, currentWeekStart, keyPc, loads, saves,
                   lastWrite, nItems>>
    /\ UNCHANGED <<gwVars, mrVars, pgVars, srvVars, grpVars, uiVars, auxVars>>

InitNorm ==
    ClientInit /\ MrIdle /\ PgIdle /\ SrvIdle /\ GrpIdle /\ NormInit /\ UiIdle /\ MemIdle /\ AuxIdle
NextNorm == ProcessItems
SpecNorm == InitNorm /\ [][NextNorm]_vars

\* the ids of the entries the WeekIndex holds
IndexedIds ==
    UNION {{entries[k][j].id : j \in 1..Len(entries[k])} : k \in DOMAIN entries}
\* the item of the list with that id
ItemOf(id) == CHOOSE i \in 1..Len(nItems) : nItems[i].id = id
PersonColumnsOf(item) ==
    IF item.hasColumns
    THEN {item.column_values[i] : i \in {j \in 1..Len(item.column_values) :
                                            item.column_values[j].id = "person"}}
    ELSE {}
\* the text is a JSON document whose personsAndTeams array has a member with
\* the user's id
JsonListsUserId(text) ==
    /\ JSONparse(text).ok
    /\ HasKey(JSONparse(text).v, "personsAndTeams")
    /\ Get(JSONparse(text).v, "personsAndTeams").t = "array"
    /\ \E m \in 1..Len(Get(JSONparse(text).v, "personsAndTeams").a) :
            LET person == Get(JSONparse(text).v, "personsAndTeams").a[m]
            IN HasKey(person, "id") /\ Get(person, "id") = user.id
NameContainsUser(item) == Truthy(item.name) /\ Includes(item.name, user.name)
ValueListsUser(item) == \E c \in PersonColumnsOf(item) : JsonListsUserId(c.value)
TextContainsUser(item) ==
    \E c \in PersonColumnsOf(item) :
        Truthy(c.text) /\ (Includes(c.text, user.name) \/ Includes(c.text, user.email))
TextListsUser(item) == \E c \in PersonColumnsOf(item) : JsonListsUserId(c.text)

\* C7 as stated: after normalization every entry of the WeekIndex comes from an
\* item whose name contains the user's name, or whose person column's JSON
\* value lists the user's id in personsAndTeams, or whose person column's text
\* contains the user's name or email.
C7_ThreeWayOwnership ==
    nPc = "done" =>
        \A id \in IndexedIds :
            /\ \E i \in 1..Len(nItems) : nItems[i].id = id
            /\ \/ NameContainsUser(nItems[ItemOf(id)])
               \/ ValueListsUser(nItems[ItemOf(id)])
               \/ TextContainsUser(nItems[ItemOf(id)])

\* C7: after normalization every entry of the WeekIndex comes from an item that
\* passes the ownership test: its name contains the user's name, or its person
\* column's JSON value lists the user's id in personsAndTeams, or its person
\* column's text contains the user's name or email, or (isUserItem only) its
\* person column's text is itself JSON that lists the user's id in
\* personsAndTeams. An item that satisfies none of these is excluded whatever
\* its date column holds.
C7_Ownership ==
    nPc = "done" =>
        \A id \in IndexedIds :
            /\ \E i \in 1..Len(nItems) : nItems[i].id = id
            /\ \/ NameContainsUser(nItems[ItemOf(id)])
               \/ ValueListsUser(nItems[ItemOf(id)])
               \/ TextContainsUser(nItems[ItemOf(id)])
               \/ rev = "B" /\ TextListsUser(nItems[ItemOf(id)])

\* the code's own date of the item is one of the dates of the selected week
DatedInWeek(item) ==
    \E i \in 1..WeekLength(rev) :
        extractItemDate(item) = formatDate(currentWeekStart + 24 * (i - 1))

\* isUserItem keeps an item on the strength of its person text being JSON,
\* and drops somebody else's item that is dated in the week
C7_Witness ==
    /\ nPc = "done" /\ rev = "B" /\ Len(nItems) = 2
    /\ nItems[1].id \in IndexedIds
    /\ TextListsUser(nItems[1])
    /\ ~NameContainsUser(nItems[1]) /\ ~ValueListsUser(nItems[1])
    /\ ~TextContainsUser(nItems[1])
    /\ nItems[2].id \notin IndexedIds
    /\ PersonColumnsOf(nItems[2]) # {}
    /\ DatedInWeek(nItems[2])

-----------------------------------------------------------------------------
(* The app: loadData, saveApiKey, saveEntry and the week navigation.        *)
(* An await is a point where the call stops until the remote has answered;  *)
(* what runs between two awaits is one step.                                *)

\* the calls of loadData and saveEntry a run makes
MaxOperations == 2

\* new Date().getFullYear().toString(); every day of Calendar is in 2025
AppYear == <<"2025">>
\* the group saveEntry falls back to
fallbackGroupId == <<"new_group_mkkbbd2q">>

\* new Date(dateString) for a date of Calendar: midnight UTC of that date
NewDate(dateString) ==
    24 * ((CHOOSE i \in 1..Len(Calendar) : Calendar[i] = dateString[1]) - 1)

\* the weeks Calendar has room for, with a week to spare on each side
InCalendar(start) == start >= 24 * 7 /\ start + 24 * 7 <= 24 * Len(Calendar)

\* the dates the week picker hands to selectWeek
PickDates == {<<"2025-01-15">>}

\* what getBoardWithGroups ends with: it throws, or returns data.boards[0]
AppBoards ==
    {BoardWithoutGroups, Board(<<>>),
     Board(GroupsOf(<< <<"Archive">>, <<"2025">> >>))}
BoardOutcomes ==
    {[threw |-> TRUE, board |-> NullBoard]}
    \cup {[threw |-> FALSE, board |-> b] : b \in AppBoards}

\* the items of the board, when it has any: the user's, of three weeks, and
\* somebody else's
AppItem(name, date) ==
    Item("0", name, TRUE,
         <<Col("person", Null, Null),
           Col("date4", JSONstringify(DateValue(JStr(date))), date)>>
         \o DetailColumns)
AppItemLists ==
    {<<>>,
     WithIds(<<AppItem(<<"Ann">>, <<"2025-01-15">>), AppItem(<<"Ann">>, <<"2025-01-22">>),
               AppItem(<<"Bob">>, <<"2025-01-22">>), AppItem(<<"Ann">>, <<"2025-01-29">>)>>)}
\* what an item query ends with: it throws, or returns a list of items
ItemOutcomes ==
    {[threw |-> TRUE, items |-> <<>>]}
    \cup {[threw |-> FALSE, items |-> l] : l \in AppItemLists}

\* the item queries loadData tries in turn: one in revision "A"
\* (queryItemsPaginated), three in revision "B" (getItemsSimple,
\* queryAllItemsInGroup, getItemsBasic)
QueryMethods(r) == IF r = "A" THEN 1 ELSE 3

\* how the board of a call is recorded
GroupsSeen(board) ==
    IF board.isNull \/ ~board.hasGroups THEN "missing"
    ELSE IF Len(board.groups) = 0 THEN "empty" ELSE "some"

\* the calls that are waiting for the remote
InFlight(ls) == {i \in 1..Len(ls) : ls[i].pc \in {"board", "items"}}
\* the number of calls that have ended
Ended(ls) == Cardinality({i \in 1..Len(ls) : ls[i].order > 0})

\* a loadData call up to its first await: without a user it warns and returns
NewLoad(ls, u) ==
    [pc |-> IF u = NoUser THEN "nouser" ELSE "board",
     note |-> IF u = NoUser THEN "warning" ELSE "none",
     order |-> IF u = NoUser THEN Ended(ls) + 1 ELSE 0,
     overlaps |-> InFlight(ls),
     groups |-> "unseen", groupId |-> Null, method |-> 0, queries |-> 0,
     thrown |-> 0, from |-> 0, received |-> <<>>, processed |-> <<>>,
     wrote |-> FALSE, rendered |-> FALSE, result |-> EmptyIndex]

\* a loadData that abandons the calls still in flight
loadData_CancelsPending(ls, u) ==
    Append([i \in 1..Len(ls) |->
                IF i \in InFlight(ls)
                THEN [ls[i] EXCEPT !.pc = "cancelled", !.order = Ended(ls) + 1]
                ELSE ls[i]],
           NewLoad(ls, u))

\* this.loadData(): the calls of loadData once this one has started
loadData(ls, u) == Append(ls, NewLoad(ls, u))

\* the overlay once loadData has run to its first await: without a user the
\* revision of processItemsWithDebug hides it and the other leaves it alone
LoadingAfterLoadData(u, r, shown) ==
    IF u = NoUser THEN (IF r = "A" THEN FALSE ELSE shown) ELSE TRUE

\* a loadData that queries the fallback group when none is found
AfterBoard_FallbackGroup(board, r) ==
    LET groupId == getYearGroupId(board, AppYear, AppYear)
    IN IF board.isNull \/ ~board.hasGroups
       THEN [pc |-> IF r = "A" THEN "failed" ELSE "stopped", note |-> "error",
             groupId |-> Null]
       ELSE IF ~Truthy(groupId)
       THEN [pc |-> "items", note |-> "none", groupId |-> fallbackGroupId]
       ELSE [pc |-> "items", note |-> "none", groupId |-> groupId]

\* loadData from the board's arrival to the item query: where the call goes,
\* the notification it shows and the group it will query
AfterBoard(board, r) ==
    LET groupId == getYearGroupId(board, AppYear, AppYear)
    IN IF board.isNull \/ ~board.hasGroups
       THEN [pc |-> IF r = "A" THEN "failed" ELSE "stopped", note |-> "error",
             groupId |-> Null]
       ELSE IF ~Truthy(groupId)
       THEN [pc |-> IF r = "A" THEN "failed" ELSE "stopped",
             note |-> IF r = "A" THEN "error" ELSE "warning", groupId |-> Null]
       ELSE [pc |-> "items", note |-> "none", groupId |-> groupId]

\* saveEntry: this.getYearGroupId(board, currentYear) || 'new_group_mkkbbd2q'
SaveGroupId(board) ==
    IF Truthy(getYearGroupId(board, AppYear, AppYear))
    THEN getYearGroupId(board, AppYear, AppYear) ELSE fallbackGroupId

\* the user the API key entered in the app belongs to
AppUsers == {[id |-> JNum(77), name |-> <<"Ann">>, email |-> <<"ann@x.io">>]}

\* the browser the app is opened in: at UTC, on Wednesday 2025-01-22
AppClocks == {c \in Clocks : c.tz = 0}

\* new ClaimWebApp()
AppInit ==
    /\ rev \in {"A", "B"}
    /\ \E c \in AppClocks : tz = c.tz /\ currentWeekStart = getMonday(c.now, c.tz)
    /\ user = NoUser
    /\ entries = EmptyIndex
    /\ keyPc = "idle" /\ loads = <<>> /\ saves = <<>>
    /\ lastWrite = 0
    /\ UiIdle

\* the keys typed in the API key input: the key of the user, and a key the
\* remote does not accept
KeyInputs == {<<"key-ann">>, <<"key-revoked">>}
\* the key the user of the app types
AppKeys == {<<"key-ann">>}
\* the user getCurrentUser() fetches with a key, when the remote accepts it
KeyOwner(k) ==
    IF k = <<"key-ann">> THEN [id |-> JNum(77), name |-> <<"Ann">>, email |-> <<"ann@x.io">>]
    ELSE NoUser

\* saveApiKey() up to await getCurrentUser(), with a key in the input:
\* this.mondayClient.setApiKey(apiKey) comes before the request
SaveApiKey(k) ==
    /\ keyPc = "idle"
    /\ keyPc' = "await"
    /\ setApiKey(k)
    /\ loading' = TRUE
    /\ UNCHANGED <<rev, tz, user, currentWeekStart, entries, loads, saves, lastWrite,
                   edits>>

\* getCurrentUser() throws: saveApiKey reports it
KeyRejected ==
    /\ keyPc = "await"
    /\ keyPc' = "idle"
    /\ loading' = FALSE
    /\ UNCHANGED <<rev, tz, user, currentWeekStart, entries, loads, saves, lastWrite,
                   edits>>

\* getCurrentUser() returns data.me, the owner of the key the request was
\* sent with: saveApiKey sets this.user, stores the key and loads
KeyAccepted(u) ==
    /\ keyPc = "await"
    /\ u = KeyOwner(apiKey)
    /\ Len(loads) + Len(saves) < MaxOperations
    /\ keyPc' = "idle"
    /\ user' = u
    /\ storedKey' = apiKey
    /\ loads' = loadData(loads, u)
    /\ loading' = LoadingAfterLoadData(u, rev, loading)
    /\ UNCHANGED <<rev, tz, currentWeekStart, entries, saves, lastWrite, edits>>

\* what previousWeek, nextWeek, selectWeek and the query button share:
\* renderCalendarView() and loadData()
Reload ==
    /\ Len(loads) + Len(saves) < MaxOperations
    /\ loads' = loadData(loads, user)
    /\ loading' = LoadingAfterLoadData(user, rev, loading)
    /\ UNCHANGED <<rev, tz, user, entries, keyPc, saves, lastWrite, edits>>

previousWeek ==
    /\ InCalendar(currentWeekStart - 24 * 7)
    /\ currentWeekStart' = currentWeekStart - 24 * 7
    /\ Reload

nextWeek ==
    /\ InCalendar(currentWeekStart + 24 * 7)
    /\ currentWeekStart' = currentWeekStart + 24 * 7
    /\ Reload

selectWeek(dateString) ==
    /\ InCalendar(getMonday(NewDate(dateString), tz))
    /\ currentWeekStart' = getMonday(NewDate(dateString), tz)
    /\ Reload

\* the queryData button and forceLoad()
QueryData == Reload /\ UNCHANGED currentWeekStart

\* a loadData call ends
EndLoad(l, pc, note) ==
    [l EXCEPT !.pc = pc, !.note = note, !.order = Ended(loads) + 1]

\* getBoardWithGroups answers call i of loadData
LoadBoardAnswer(i, out) ==
    /\ i \in 1..Len(loads) /\ loads[i].pc = "board"
    /\ LET l == loads[i]
           next == AfterBoard(out.board, rev)
       IN IF out.threw
          THEN /\ loads' = [loads EXCEPT ![i] = EndLoad(l, "failed", "error")]
               /\ loading' = FALSE
          ELSE IF next.pc = "items"
          THEN /\ loads' = [loads EXCEPT ![i] =
                                [l EXCEPT !.pc = "items",
                                          !.groups = GroupsSeen(out.board),
                                          !.groupId = next.groupId,
                                          !.method = 1, !.queries = 1]]
               /\ loading' = IF rev = "A" THEN TRUE ELSE loading
          ELSE /\ loads' = [loads EXCEPT ![i] =
                                [EndLoad(l, next.pc, next.note)
                                    EXCEPT !.groups = GroupsSeen(out.board)]]
               /\ loading' = FALSE
    /\ UNCHANGED <<rev, tz, user, currentWeekStart, entries, keyPc, saves, lastWrite,
                   edits>>

\* the entries a call writes from the items it got, for the week selected now
Normalized(items) ==
    IF rev = "A" THEN processItemsWithDebug(items, user, currentWeekStart)
    ELSE processItems(items, user, currentWeekStart)

\* the rest of loadData once it holds the items: revision "A" returns on an
\* empty list; otherwise the items are processed and the calendar rendered;
\* the overlay is hidden on the way out
LoadFinish(i, l, items, q) ==
    IF rev = "A" /\ Len(items) = 0
    THEN /\ loads' = [loads EXCEPT ![i] = EndLoad(l, "stopped", "warning")]
         /\ loading' = FALSE
         /\ UNCHANGED <<entries, lastWrite, memVars>>
    ELSE LET written == Normalized(items)
         IN /\ entries' = written
            /\ Becomes(Learned(Mem, written, rev, q))
            /\ lastWrite' = i
            /\ loading' = FALSE
            /\ loads' = [loads EXCEPT ![i] =
                            [EndLoad(l, "done", "success")
                                EXCEPT !.wrote = TRUE, !.rendered = TRUE,
                                       !.processed = items, !.result = written]]

\* a loadData that gives up when an item query throws, in either revision
AfterItems_NoFallback(method, out, r) ==
    IF ~out.threw THEN [do |-> "process", items |-> out.items]
    ELSE [do |-> "throw", items |-> <<>>]

\* what loadData does with the outcome of its item query number `method`:
\* revision "A" rethrows; revision "B" leaves its loop on the first query that
\* returns (break), tries the next one when a query throws, and goes on with
\* let items = [] when the last one threw
AfterItems(method, out, r) ==
    IF ~out.threw THEN [do |-> "process", items |-> out.items]
    ELSE IF r = "A" THEN [do |-> "throw", items |-> <<>>]
    ELSE IF method < QueryMethods(r) THEN [do |-> "next", items |-> <<>>]
    ELSE [do |-> "process", items |-> <<>>]

\* the item query of call i of loadData answers
LoadItemsAnswer(i, out, q) ==
    /\ i \in 1..Len(loads) /\ loads[i].pc = "items"
    /\ LET l == [loads[i] EXCEPT
                    !.thrown = IF out.threw THEN @ + 1 ELSE @,
                    !.from = IF out.threw THEN @ ELSE loads[i].method,
                    !.received = IF out.threw THEN @ ELSE out.items]
           next == AfterItems(loads[i].method, out, rev)
       IN IF next.do = "process" THEN LoadFinish(i, l, next.items, q)
          ELSE IF next.do = "throw"
          THEN /\ loads' = [loads EXCEPT ![i] = EndLoad(l, "failed", "error")]
               /\ loading' = FALSE
               /\ UNCHANGED <<entries, lastWrite, memVars>>
          ELSE /\ loads' = [loads EXCEPT ![i] =
                                [l EXCEPT !.method = @ + 1, !.queries = @ + 1]]
               /\ UNCHANGED <<entries, lastWrite, loading, memVars>>
    /\ UNCHANGED <<rev, tz, user, currentWeekStart, keyPc, saves, edits>>

\* the customer and work item typed in the entry form
FormPairs == {<<(<<"Acme">>), (<<"WI-1">>)>>}

\* saveEntry() with a valid form, up to await getBoardWithGroups(): the
\* revision of processItemsWithDebug learns the pair of the form first
SaveEntry(customer, workItem, q) ==
    /\ Len(loads) + Len(saves) < MaxOperations
    /\ Becomes(IF rev = "A" THEN addCustomerWorkPair(Mem, customer, workItem, q) ELSE Mem)
    /\ saves' = Append(saves,
            [pc |-> IF user = NoUser THEN "nouser" ELSE "board",
             note |-> IF user = NoUser THEN "warning" ELSE "none",
             customer |-> customer, workItem |-> workItem,
             groups |-> "unseen", groupId |-> Null, created |-> 0])
    /\ loading' = IF user = NoUser THEN loading ELSE TRUE
    /\ UNCHANGED <<rev, tz, user, currentWeekStart, entries, keyPc, loads, lastWrite,
                   edits>>

\* getBoardWithGroups answers call j of saveEntry, which sends create_item
SaveBoardAnswer(j, out) ==
    /\ j \in 1..Len(saves) /\ saves[j].pc = "board"
    /\ IF out.threw
       THEN /\ saves' = [saves EXCEPT ![j] = [@ EXCEPT !.pc = "failed", !.note = "error"]]
       ELSE /\ saves' = [saves EXCEPT ![j] =
                            [@ EXCEPT !.pc = "create",
                                      !.groups = GroupsSeen(out.board),
                                      !.groupId = SaveGroupId(out.board),
                                      !.created = 1]]
    /\ loading' = IF out.threw THEN FALSE ELSE loading
    /\ UNCHANGED <<rev, tz, user, currentWeekStart, entries, keyPc, loads, lastWrite,
                   edits>>

\* createItem throws: saveEntry reports it
SaveRejected(j) ==
    /\ j \in 1..Len(saves) /\ saves[j].pc = "create"
    /\ saves' = [saves EXCEPT ![j] = [@ EXCEPT !.pc = "failed", !.note = "error"]]
    /\ loading' = FALSE
    /\ UNCHANGED <<rev, tz, user, currentWeekStart, entries, keyPc, loads, lastWrite,
                   edits>>

\* createItem returns: saveEntry reports it and, unless another entry is to
\* be added, closes the form and loads
SaveAccepted(j, addAnother) ==
    /\ j \in 1..Len(saves) /\ saves[j].pc = "create"
    /\ addAnother \/ Len(loads) + Len(saves) < MaxOperations
    /\ saves' = [saves EXCEPT ![j] = [@ EXCEPT !.pc = "done", !.note = "success"]]
    /\ loads' = IF addAnother THEN loads ELSE loadData(loads, user)
    /\ loading' = IF addAnother THEN FALSE ELSE LoadingAfterLoadData(user, rev, loading)
    /\ UNCHANGED <<rev, tz, user, currentWeekStart, entries, keyPc, lastWrite, edits>>

NextApp ==
    \/ \E k \in AppKeys :
        SaveApiKey(k) /\ UNCHANGED <<mrVars, pgVars, srvVars, grpVars, normVars, memVars, auxVars>>
    \/ (KeyRejected /\ UNCHANGED <<gwVars, mrVars, pgVars, srvVars, grpVars, normVars, memVars, auxVars>>)
    \/ \E u \in AppUsers :
        KeyAccepted(u) /\ UNCHANGED <<gwVars, mrVars, pgVars, srvVars, grpVars, normVars, memVars, evVars>>
    \/ (previousWeek /\ UNCHANGED <<gwVars, mrVars, pgVars, srvVars, grpVars, normVars, memVars, auxVars>>)
    \/ (nextWeek /\ UNCHANGED <<gwVars, mrVars, pgVars, srvVars, grpVars, normVars, memVars, auxVars>>)
    \/ \E d \in PickDates :
        selectWeek(d) /\ UNCHANGED <<gwVars, mrVars, pgVars, srvVars, grpVars, normVars, memVars, auxVars>>
    \/ (QueryData /\ UNCHANGED <<gwVars, mrVars, pgVars, srvVars, grpVars, normVars, memVars, auxVars>>)
    \/ \E i \in 1..MaxOperations, out \in BoardOutcomes :
        LoadBoardAnswer(i, out)
        /\ UNCHANGED <<gwVars, mrVars, pgVars, srvVars, grpVars, normVars, memVars, auxVars>>
    \/ \E i \in 1..MaxOperations, out \in ItemOutcomes, q \in AppWrites :
        LoadItemsAnswer(i, out, q)
        /\ UNCHANGED <<gwVars, mrVars, pgVars, srvVars, grpVars, normVars, auxVars>>
    \/ \E pr \in FormPairs, q \in AppWrites :
        SaveEntry(pr[1], pr[2], q)
        /\ UNCHANGED <<gwVars, mrVars, pgVars, srvVars, grpVars, normVars, auxVars>>
    \/ \E j \in 1..MaxOperations, out \in BoardOutcomes :
        SaveBoardAnswer(j, out)
        /\ UNCHANGED <<gwVars, mrVars, pgVars, srvVars, grpVars, normVars, memVars, auxVars>>
    \/ \E j \in 1..MaxOperations :
        SaveRejected(j) /\ UNCHANGED <<gwVars, mrVars, pgVars, srvVars, grpVars, normVars, memVars, auxVars>>
    \/ \E j \in 1..MaxOperations, addAnother \in BOOLEAN :
        SaveAccepted(j, addAnother)
        /\ UNCHANGED <<gwVars, mrVars, pgVars, srvVars, grpVars, normVars, memVars, auxVars>>

InitApp ==
    ClientInit /\ MrIdle /\ PgIdle /\ SrvIdle /\ GrpIdle /\ NormIdle /\ AppInit /\ MemIdle /\ AuxIdle
SpecApp == InitApp /\ [][NextApp]_vars

\* the app when keys of both kinds are typed: saveApiKey, the loads it
\* starts and the query button
NextKey ==
    \/ \E k \in KeyInputs :
        SaveApiKey(k) /\ UNCHANGED <<mrVars, pgVars, srvVars, grpVars, normVars, memVars, auxVars>>
    \/ (KeyRejected /\ UNCHANGED <<gwVars, mrVars, pgVars, srvVars, grpVars, normVars, memVars, auxVars>>)
    \/ \E u \in AppUsers :
        KeyAccepted(u) /\ UNCHANGED <<gwVars, mrVars, pgVars, srvVars, grpVars, normVars, memVars, evVars>>
    \/ (QueryData /\ UNCHANGED <<gwVars, mrVars, pgVars, srvVars, grpVars, normVars, memVars, auxVars>>)
    \/ \E i \in 1..MaxOperations, out \in BoardOutcomes :
        LoadBoardAnswer(i, out)
        /\ UNCHANGED <<gwVars, mrVars, pgVars, srvVars, grpVars, normVars, memVars, auxVars>>
    \/ \E i \in 1..MaxOperations, out \in ItemOutcomes, q \in AppWrites :
        LoadItemsAnswer(i, out, q)
        /\ UNCHANGED <<gwVars, mrVars, pgVars, srvVars, grpVars, normVars, auxVars>>

SpecKey == InitApp /\ [][NextKey]_vars

-----------------------------------------------------------------------------
(* The extractors (src/app.js:1140-1223, 2454-2569) on the column contents  *)
(* a board can hold                                                         *)

\* the value and text of a date4 column: timestamps with a time of day,
\* values without a date field, undecodable values, texts that are no date
ExtractDateCells ==
    {<<JSONstringify(DateValue(JStr(<<"2025-01-22">>))), <<"2025-01-22">> >>,
     <<JSONstringify(DateValue(JStr(<<"2025-01-22", "T", "10:00:00Z">>))), Null>>,
     <<JSONstringify(DateValue(JStr(<<"2025-01-22", "T", "10:00:00Z">>))),
       <<"2025-01-23">> >>,
     <<Null, <<"2025-01-22", "T", "10:00:00Z">> >>,
     <<JSONstringify(JObj(<<>>)), <<"2025-01-22", "T", "10:00:00Z">> >>,
     <<<<"{", "oops">>, <<"2025-01-23", "T", "08:00:00Z">> >>,
     <<JSONstringify(JObj(<<>>)), <<"22/01/2025">> >>,
     <<JSONstringify(JObj(<<>>)), Null>>,
     <<<<"{", "oops">>, Null>>,
     <<JSONstringify(DateValue(JNum(5))), <<"2025-01-22">> >>}

\* the value and text of a status column
ExtractStatusCells ==
    {<<JSONstringify(JObj(<< <<"index", JNum(6)>> >>)), <<"Holiday">> >>,
     <<JSONstringify(JObj(<< <<"index", JNum(3)>> >>)), Null>>,
     <<JSONstringify(JObj(<< <<"index", JNum(99)>> >>)), <<"Custom">> >>,
     <<JSONstringify(JObj(<< <<"index", JNum(-1)>> >>)), Null>>,
     <<JSONstringify(JObj(<< <<"index", JStr(<<"3">>)>> >>)), <<"Education">> >>,
     <<<<"{", "oops">>, <<"Business Development", " hrs">> >>,
     <<<<"{", "oops">>, <<"Holiday", " / ", "Billable">> >>,
     <<<<"{", "oops">>, <<"Misc">> >>,
     <<<<"{", "oops">>, Null>>,
     <<Null, <<"Holiday">> >>}

\* the value and text of a text column
ExtractTextCells ==
    {<<JSONstringify(JStr(<<"Acme">>)), <<"Acme">> >>,
     <<JSONstringify(JStr(<<"Beta">>)), NullText>>,
     <<JSONstringify(JStr(<<"Beta">>)), EmptyJsonString>>,
     <<JSONstringify(JStr(<<"Beta">>)), Null>>,
     <<JSONstringify(JObj(<< <<"text", JStr(<<"Acme">>)>> >>)), <<>> >>,
     <<<<"{", "oops">>, Null>>,
     <<JSONstringify(JObj(<< <<"index", JNum(3)>> >>)), Null>>,
     <<JSONstringify(JNum(8)), Null>>,
     <<NullText, Null>>,
     <<Null, Null>>}

\* an item of the user's: its date4 column, its status columns, its text__1
\* columns, and the work item and hours
ExtractItem(d, statusCols, customerCols) ==
    Item("0", <<"Ann">>, TRUE,
         <<Col("person", Null, Null), Col("date4", d[1], d[2])>>
         \o statusCols \o customerCols
         \o <<Col("text8__1", Null, <<"WI-1">>),
              Col("numbers__1", JSONstringify(JStr(<<"8">>)), <<"8">>)>>)

EducationStatus ==
    <<Col("status", JSONstringify(JObj(<< <<"index", JNum(3)>> >>)), <<"Education">>)>>
AcmeCustomer == <<Col("text__1", JSONstringify(JStr(<<"Acme">>)), <<"Acme">>)>>

ExtractItems ==
    {ExtractItem(d, EducationStatus, AcmeCustomer) : d \in ExtractDateCells}
    \cup {ExtractItem(WednesdayCell, <<Col("status", c[1], c[2])>>, AcmeCustomer) :
                c \in ExtractStatusCells}
    \cup {ExtractItem(WednesdayCell, EducationStatus, <<Col("text__1", c[1], c[2])>>) :
                c \in ExtractTextCells}
    \cup {ExtractItem(WednesdayCell, <<>>, <<>>),
          ExtractItem(WednesdayCell,
                      <<Col("status", Null, Null),
                        Col("status", JSONstringify(JObj(<< <<"index", JNum(6)>> >>)), Null)>>,
                      <<Col("text__1", Null, Null),
                        Col("text__1", Null, <<"Acme">>)>>),
          Item("0", <<"Ann">>, FALSE, <<>>),
          Item("0", <<"Bob">>, TRUE,
               <<Col("person", <<"{", "oops">>, <<"Bob">>),
                 Col("date4", WednesdayCell[1], WednesdayCell[2])>>
               \o EducationStatus \o AcmeCustomer)}

\* the items a batch holds next to the one looked at: the user's, with
\* undecodable values in every column, one with a date in its text and one
\* without
Companions ==
    {Item("0", <<"Ann">>, TRUE,
          <<Col("person", <<"{", "oops">>, Null), Col("date4", <<"{", "oops">>, t),
            Col("status", <<"{", "oops">>, <<"Misc">>),
            Col("text__1", <<"{", "oops">>, Null),
            Col("text2__1", <<"{", "oops">>, NullText)>>) :
        t \in {<<"2025-01-22">>, Null}}

CompanionLists == UNION {[1..n -> Companions] : n \in 0..(MaxItems - 1)}
ExtractItemLists ==
    {WithIds(pre \o <<x>>) : pre \in CompanionLists, x \in ExtractItems}
    \cup {WithIds(<<x>> \o post) : post \in CompanionLists, x \in ExtractItems}

\* the week on screen is the current one, or the Invalid Date that
\* selectWeek('') leaves behind when the week picker is cleared
ExtractInit ==
    /\ rev \in {"A", "B"}
    /\ \E c \in AppClocks :
            tz = c.tz /\ currentWeekStart \in {getMonday(c.now, c.tz), InvalidDate}
    /\ user \in AppUsers
    /\ entries = StaleIndex
    /\ keyPc = "idle" /\ loads = <<>> /\ saves = <<>>
    /\ lastWrite = 0
    /\ nItems \in ExtractItemLists
    /\ nPc = "input"

InitExtract ==
    ClientInit /\ MrIdle /\ PgIdle /\ SrvIdle /\ GrpIdle /\ ExtractInit /\ UiIdle /\ MemIdle /\ AuxIdle
NextExtract == ProcessItems
SpecExtract == InitExtract /\ [][NextExtract]_vars

\* the item of the batch with that id, and the date and entry it is filed as
IsIndexed(id) == id \in IndexedIds
DateKeyOf(id) ==
    CHOOSE k \in DOMAIN entries : \E j \in 1..Len(entries[k]) : entries[k][j].id = id
EntryOf(id) ==
    LET k == DateKeyOf(id)
    IN entries[k][CHOOSE j \in 1..Len(entries[k]) : entries[k][j].id = id]
\* the columns of the item with that id
ColumnsOf(item, columnId) ==
    IF item.hasColumns
    THEN SelectSeq(item.column_values, LAMBDA c : c.id = columnId)
    ELSE <<>>

\* what the normalization of revision rev files for a batch
Normalize(items) ==
    IF rev = "A" THEN processItemsWithDebug(items, user, currentWeekStart)
    ELSE processItems(items, user, currentWeekStart)

\* no column of the item with that id yields a value other than through the
\* raw text of an undecodable value: the first one that has a filled text or
\* value has an undecodable value and no filled text
FirstIsUndecodable(item, columnId) ==
    LET cols == ColumnsOf(item, columnId)
        live == {i \in 1..Len(cols) : Filled(cols[i].text) \/ Filled(cols[i].value)}
    IN /\ live # {}
       /\ LET c == cols[CHOOSE i \in live : \A j \in live : i <= j]
          IN ~Filled(c.text) /\ ParseFails(c)
RawOfFirst(item, columnId) ==
    LET cols == ColumnsOf(item, columnId)
        live == {i \in 1..Len(cols) : Filled(cols[i].text) \/ Filled(cols[i].value)}
    IN cols[CHOOSE i \in live : \A j \in live : i <= j].value

\* the call returns, and each item is filed, or left out, as it would be in
\* a batch of its own, in the order of the batch
C14_BatchCompletes ==
    /\ nPc = "done"
    /\ \A i \in 1..Len(nItems) :
            LET alone == Normalize(<<nItems[i]>>)
            IN /\ IsIndexed(nItems[i].id) <=> alone # EmptyIndex
               /\ IsIndexed(nItems[i].id) =>
                    /\ DateKeyOf(nItems[i].id) \in DOMAIN alone
                    /\ EntryOf(nItems[i].id) = alone[DateKeyOf(nItems[i].id)][1]
    /\ \A k \in DOMAIN entries :
            \A a, b \in 1..Len(entries[k]) :
                a < b => \E i, j \in 1..Len(nItems) :
                            /\ i < j
                            /\ nItems[i].id = entries[k][a].id
                            /\ nItems[j].id = entries[k][b].id
    /\ \A i \in 1..Len(nItems) :
            (~nItems[i].hasColumns
             \/ \A j \in 1..Len(ColumnsOf(nItems[i], "date4")) :
                    LET c == ColumnsOf(nItems[i], "date4")[j]
                    IN (~Filled(c.value) \/ ParseFails(c)) /\ ~Filled(c.text))
                => ~IsIndexed(nItems[i].id)
    /\ \A i \in 1..Len(nItems) :
            (/\ IsIndexed(nItems[i].id)
             /\ \A j \in 1..Len(ColumnsOf(nItems[i], "status")) :
                    LET c == ColumnsOf(nItems[i], "status")[j]
                    IN ~Filled(c.value)
                       \/ (ParseFails(c) /\ c.text \in {Null, <<>>, <<"Misc">>}))
                => EntryOf(nItems[i].id).activityType = 1

\* C14 (as stated): processItems / processItemsWithDebug returns, without
\* throwing, for every batch, each item being filed or left out whatever the
\* other items are; an item without column_values or without an extractable
\* date is left out, and a filed item whose status or text column holds an
\* undecodable value gets the defaults: activity code 1 and the empty string.
C14_NormalizationNeverThrows ==
    nPc # "input" =>
        /\ nPc = "done"
        /\ C14_BatchCompletes
        /\ \A i \in 1..Len(nItems) :
                IsIndexed(nItems[i].id) =>
                    /\ FirstIsUndecodable(nItems[i], "text__1")
                            => EntryOf(nItems[i].id).customer = <<>>
                    /\ FirstIsUndecodable(nItems[i], "text2__1")
                            => EntryOf(nItems[i].id).comment = <<>>

-----------------------------------------------------------------------------
(* The normalization in the event loop of the page. A call that is on the   *)
(* stack runs to its next await or to its end before any other task (the    *)
(* handler of a click, of a week button, the continuation of another load)  *)
(* can start; user events that arrive meanwhile wait in the task queue.     *)
(* Here the loop of processItemsWithDebug (src/app.js:1012-1056) is taken   *)
(* chunk by chunk; processItems (src/app.js:2332-2368) is one forEach.      *)

\* const chunkSize = 100
chunkSize == 100
\* the chunks of the largest batch, and the user events of a run
MaxChunks == 2
MaxEvents == 2

\* a batch of n items: the first item of every hundred is the user's
TurnItems(n) ==
    WithIds([i \in 1..n |->
                IF i % chunkSize = 1 THEN AppItem(<<"Ann">>, <<"2025-01-22">>)
                ELSE AppItem(<<"Bob">>, <<"2025-01-22">>)])
TurnItemLists ==
    {TurnItems(n) : n \in {0, 1, MaxChunks * chunkSize}
                          \cup {c * chunkSize + 1 : c \in 1..(MaxChunks - 1)}}

\* for (let i = 0; i < items.length; i += chunkSize): the passes of the loop;
\* items.forEach in the other revision is one pass
Chunks(items, r) ==
    IF r = "A" THEN (Len(items) + chunkSize - 1) \div chunkSize
    ELSE IF Len(items) = 0 THEN 0 ELSE 1
\* items.slice(i, i + chunkSize): the items done once k passes are
ChunkEnd(items, k, r) ==
    IF r = "A"
    THEN (IF k * chunkSize < Len(items) THEN k * chunkSize ELSE Len(items))
    ELSE IF k = 0 THEN 0 ELSE Len(items)

\* the entries of index b pushed, date by date, after those of index a
PushAll(a, b) ==
    [k \in DOMAIN a \cup DOMAIN b |->
        (IF k \in DOMAIN a THEN a[k] ELSE <<>>) \o (IF k \in DOMAIN b THEN b[k] ELSE <<>>)]
\* what chunk.forEach files for the items lo..hi of the batch, in their
\* order (evaluated half by half)
RECURSIVE FiledOf(_, _, _)
FiledOf(items, lo, hi) ==
    IF hi - lo < 4 THEN Normalize(SubSeq(items, lo, hi))
    ELSE PushAll(FiledOf(items, lo, (lo + hi) \div 2),
                 FiledOf(items, (lo + hi) \div 2 + 1, hi))

\* a loop that gives the event loop a turn after every chunk but the last
LoopState_Yields(done, total) == [running |-> done >= total]
\* the loop between two chunks: there is no await in it (the setTimeout of
\* app.js:1017-1021 only queues a text update), so the call stays on the stack
LoopState(done, total) == [running |-> TRUE]

TurnInit ==
    /\ rev \in {"A", "B"}
    /\ \E c \in AppClocks :
            tz = c.tz /\ currentWeekStart \in {getMonday(c.now, c.tz), InvalidDate}
    /\ user \in AppUsers
    /\ entries = StaleIndex
    /\ keyPc = "idle" /\ loads = <<>> /\ saves = <<>>
    /\ lastWrite = 0
    /\ nItems \in TurnItemLists
    /\ nPc = "input"

\* a click or a press of a week button: its task waits in the queue
UserEvent(kind) ==
    /\ Len(queue) + Len(handled) < MaxEvents
    /\ queue' = Append(queue, [kind |-> kind, at |-> nPc, chunk |-> chunksDone])
    /\ UNCHANGED <<running, chunksDone, handled>>
    /\ UNCHANGED <<entries, nPc>>

\* the load goes on with the items it awaited: this.entries.clear() and the
\* dates of the week, which throws on an Invalid Date
StartProcessing ==
    /\ ~running /\ nPc = "input"
    /\ entries' = EmptyIndex
    /\ IF ToISOStringThrows(currentWeekStart)
       THEN nPc' = "thrown" /\ running' = FALSE
       ELSE nPc' = "chunks" /\ running' = TRUE
    /\ UNCHANGED <<chunksDone, queue, handled>>

\* one pass of the loop
ProcessChunk ==
    /\ nPc = "chunks" /\ chunksDone < Chunks(nItems, rev)
    /\ chunksDone' = chunksDone + 1
    /\ LET filed == FiledOf(nItems, ChunkEnd(nItems, chunksDone, rev) + 1,
                            ChunkEnd(nItems, chunksDone + 1, rev))
       IN /\ entries' = PushAll(entries, filed)
          /\ \E q \in AppWrites : Becomes(Learned(Mem, filed, rev, q))
    /\ running' = LoopState(chunksDone + 1, Chunks(nItems, rev)).running
    /\ UNCHANGED <<nPc, queue, handled>>

\* the loop is over: the call returns, loadData renders and ends
FinishProcessing ==
    /\ nPc = "chunks" /\ chunksDone = Chunks(nItems, rev)
    /\ nPc' = "done"
    /\ running' = FALSE
    /\ UNCHANGED <<entries, chunksDone, queue, handled>>

\* the event loop starts the next task: the handler finds the WeekIndex as it
\* is at that moment
HandleEvent ==
    /\ ~running /\ queue # <<>>
    /\ handled' = Append(handled,
            [kind |-> Head(queue).kind, at |-> Head(queue).at,
             chunk |-> Head(queue).chunk,
             nPc |-> nPc, chunksDone |-> chunksDone, entries |-> entries])
    /\ queue' = Tail(queue)
    /\ UNCHANGED <<running, chunksDone, entries, nPc>>

NextTurn ==
    \/ \E kind \in {"click", "week"} :
        UserEvent(kind)
        /\ UNCHANGED <<rev, tz, user, currentWeekStart, keyPc, loads, saves, lastWrite,
                       nItems, storedKey>>
        /\ UNCHANGED <<gwVars, mrVars, pgVars, srvVars, grpVars, uiVars, memVars>>
    \/ (StartProcessing
        /\ UNCHANGED <<rev, tz, user, currentWeekStart, keyPc, loads, saves, lastWrite,
                       nItems, storedKey>>
        /\ UNCHANGED <<gwVars, mrVars, pgVars, srvVars, grpVars, uiVars, memVars>>)
    \/ (ProcessChunk
        /\ UNCHANGED <<rev, tz, user, currentWeekStart, keyPc, loads, saves, lastWrite,
                       nItems, storedKey>>
        /\ UNCHANGED <<gwVars, mrVars, pgVars, srvVars, grpVars, uiVars>>)
    \/ (FinishProcessing
        /\ UNCHANGED <<rev, tz, user, currentWeekStart, keyPc, loads, saves, lastWrite,
                       nItems, storedKey>>
        /\ UNCHANGED <<gwVars, mrVars, pgVars, srvVars, grpVars, uiVars, memVars>>)
    \/ (HandleEvent
        /\ UNCHANGED <<rev, tz, user, currentWeekStart, keyPc, loads, saves, lastWrite,
                       nItems, storedKey>>
        /\ UNCHANGED <<gwVars, mrVars, pgVars, srvVars, grpVars, uiVars, memVars>>)

InitTurn ==
    ClientInit /\ MrIdle /\ PgIdle /\ SrvIdle /\ GrpIdle /\ TurnInit /\ UiIdle /\ MemIdle
    /\ AuxIdle
SpecTurn == InitTurn /\ [][NextTurn]_vars

-----------------------------------------------------------------------------
(* updateEntry and deleteEntry (src/app.js:563-669, 763-823), which only the *)
(* revision of processItemsWithDebug has                                     *)

\* the items the week on screen was loaded from: three of the user's
EditItems ==
    WithIds(<<AppItem(<<"Ann">>, <<"2025-01-22">>), AppItem(<<"Ann">>, <<"2025-01-22">>),
              AppItem(<<"Ann">>, <<"2025-01-23">>)>>)
\* the ids a delete or edit button can carry: of entries on screen, and of one
\* that is not
EditIds == {"1001", "1002", "9999"}

\* for (const [date, entries] of this.entries.entries()) { entries.find(...) }
HasEntry(index, id) ==
    \E k \in DOMAIN index : \E j \in 1..Len(index[k]) : index[k][j].id = id
DateOfEntry(index, id) ==
    CHOOSE k \in DOMAIN index : \E j \in 1..Len(index[k]) : index[k][j].id = id

\* a removal that empties the date of the entry
RemoveEntry_WholeDate(index, date, id) ==
    [k \in DOMAIN index \cup {date} |-> IF k = date THEN <<>> ELSE index[k]]

\* deleteEntry once deleteItem has returned:
\* this.entries.set(entryDate, (this.entries.get(entryDate) || []).filter(...))
RemoveEntry(index, date, id) ==
    [k \in DOMAIN index \cup {date} |->
        IF k = date
        THEN SelectSeq(IF date \in DOMAIN index THEN index[date] ELSE <<>>,
                       LAMBDA e : e.id # id)
        ELSE index[k]]

\* a patch that carries the date of the entry too
UpdatePatch_WithDate(comment) ==
    {"status", "text__1", "text8__1", "numbers__1", "date4"}
    \cup (IF Truthy(comment) /\ Len(comment) > 0 THEN {"text2__1"} ELSE {})

\* the column ids of the patch updateEntry sends
UpdatePatch(comment) ==
    {"status", "text__1", "text8__1", "numbers__1"}
    \cup (IF Truthy(comment) /\ Len(comment) > 0 THEN {"text2__1"} ELSE {})

\* a call of updateEntry or deleteEntry
NewEdit(op, id, pc, note) ==
    [op |-> op, id |-> id, pc |-> pc, note |-> note, date |-> <<>>,
     requests |-> 0, patch |-> {}, comment |-> <<>>]

EditInit ==
    /\ rev = "A"
    /\ \E c \in AppClocks : tz = c.tz /\ currentWeekStart = getMonday(c.now, c.tz)
    /\ user \in AppUsers
    /\ entries = processItemsWithDebug(EditItems, user, currentWeekStart)
    /\ keyPc = "idle" /\ loads = <<>> /\ saves = <<>>
    /\ lastWrite = 0
    /\ UiIdle

\* editEntry(entryId) and then updateEntry(), up to await updateItem(): an id
\* that is not on screen ends in editEntry with 'Entry not found'
UpdateEntry(id, comment) ==
    /\ Len(loads) + Len(saves) + Len(edits) < MaxOperations
    /\ IF ~HasEntry(entries, id)
       THEN /\ edits' = Append(edits, NewEdit("update", id, "notfound", "error"))
            /\ UNCHANGED loading
       ELSE /\ edits' = Append(edits,
                    [NewEdit("update", id, "await", "none")
                        EXCEPT !.date = DateOfEntry(entries, id), !.requests = 1,
                               !.patch = UpdatePatch(comment),
                               !.comment = comment])
            /\ loading' = TRUE
    /\ UNCHANGED <<rev, tz, user, currentWeekStart, entries, keyPc, loads, saves,
                   lastWrite>>

\* updateItem answers call k: on success updateEntry closes the form and loads
UpdateAnswer(k, threw) ==
    /\ k \in 1..Len(edits) /\ edits[k].op = "update" /\ edits[k].pc = "await"
    /\ threw \/ Len(loads) + Len(saves) + Len(edits) < MaxOperations
    /\ IF threw
       THEN /\ edits' = [edits EXCEPT ![k] = [@ EXCEPT !.pc = "failed", !.note = "error"]]
            /\ loading' = FALSE
            /\ UNCHANGED loads
       ELSE /\ edits' = [edits EXCEPT ![k] = [@ EXCEPT !.pc = "done", !.note = "success"]]
            /\ loads' = loadData(loads, user)
            /\ loading' = LoadingAfterLoadData(user, rev, loading)
    /\ UNCHANGED <<rev, tz, user, currentWeekStart, entries, keyPc, saves, lastWrite>>

\* deleteEntry(entryId), up to await deleteItem(): nothing is sent for an id
\* that is not on screen, nor when confirm() is answered with Cancel
DeleteEntry(id, confirmation) ==
    /\ Len(loads) + Len(saves) + Len(edits) < MaxOperations
    /\ IF ~HasEntry(entries, id)
       THEN /\ edits' = Append(edits, NewEdit("delete", id, "notfound", "error"))
            /\ UNCHANGED loading
       ELSE IF ~confirmation
       THEN /\ edits' = Append(edits,
                    [NewEdit("delete", id, "declined", "none")
                        EXCEPT !.date = DateOfEntry(entries, id)])
            /\ UNCHANGED loading
       ELSE /\ edits' = Append(edits,
                    [NewEdit("delete", id, "await", "none")
                        EXCEPT !.date = DateOfEntry(entries, id), !.requests = 1])
            /\ loading' = TRUE
    /\ UNCHANGED <<rev, tz, user, currentWeekStart, entries, keyPc, loads, saves,
                   lastWrite>>

\* deleteItem answers call k: on success the entry is taken out of the list
\* of its date and the calendar rendered
DeleteAnswer(k, threw) ==
    /\ k \in 1..Len(edits) /\ edits[k].op = "delete" /\ edits[k].pc = "await"
    /\ IF threw
       THEN /\ edits' = [edits EXCEPT ![k] = [@ EXCEPT !.pc = "failed", !.note = "error"]]
            /\ UNCHANGED entries
       ELSE /\ edits' = [edits EXCEPT ![k] = [@ EXCEPT !.pc = "done", !.note = "success"]]
            /\ entries' = RemoveEntry(entries, edits[k].date, edits[k].id)
    /\ loading' = FALSE
    /\ UNCHANGED <<rev, tz, user, currentWeekStart, keyPc, loads, saves, lastWrite>>

NextEdit ==
    \/ \E id \in EditIds, comment \in {<<>>, <<"note">>} :
        UpdateEntry(id, comment)
        /\ UNCHANGED <<gwVars, mrVars, pgVars, srvVars, grpVars, normVars, memVars, auxVars>>
    \/ \E k \in 1..MaxOperations, threw \in BOOLEAN :
        UpdateAnswer(k, threw)
        /\ UNCHANGED <<gwVars, mrVars, pgVars, srvVars, grpVars, normVars, memVars, auxVars>>
    \/ \E id \in EditIds, confirmation \in BOOLEAN :
        DeleteEntry(id, confirmation)
        /\ UNCHANGED <<gwVars, mrVars, pgVars, srvVars, grpVars, normVars, memVars, auxVars>>
    \/ \E k \in 1..MaxOperations, threw \in BOOLEAN :
        DeleteAnswer(k, threw)
        /\ UNCHANGED <<gwVars, mrVars, pgVars, srvVars, grpVars, normVars, memVars, auxVars>>
    \/ \E i \in 1..MaxOperations, out \in BoardOutcomes :
        LoadBoardAnswer(i, out)
        /\ UNCHANGED <<gwVars, mrVars, pgVars, srvVars, grpVars, normVars, memVars, auxVars>>
    \/ \E i \in 1..MaxOperations, out \in ItemOutcomes, q \in AppWrites :
        LoadItemsAnswer(i, out, q)
        /\ UNCHANGED <<gwVars, mrVars, pgVars, srvVars, grpVars, normVars, auxVars>>

InitEdit ==
    ClientInit /\ MrIdle /\ PgIdle /\ SrvIdle /\ GrpIdle /\ NormIdle /\ EditInit /\ MemIdle /\ AuxIdle
SpecEdit == InitEdit /\ [][NextEdit]_vars

-----------------------------------------------------------------------------
(* The CustomerWorkMemory on its own: the page is opened and the modal used *)

\* the storage the page is first opened with: never written, or written by an
\* earlier visit that left one active and one expired pair
MemoryInit ==
    \E m \in {Memory(<<>>, {}, AbsentMap, Absent),
              Memory((<<"Acme">> :> {<<"WI-1">>}), {pairKey(<<"Beta">>, <<"WI-2">>)},
                     [present |-> TRUE, v |-> (<<"Acme">> :> {<<"WI-1">>})],
                     [present |-> TRUE, v |-> {pairKey(<<"Beta">>, <<"WI-2">>)}])} :
        /\ customerWorkPairs = m.pairs /\ expiredPairs = m.expired
        /\ storedPairs = m.stored /\ storedExpired = m.storedExp

\* the page is opened again: new ClaimWebApp() runs loadCustomerWorkPairs()
Reopen == Becomes(loadCustomerWorkPairs(storedPairs, storedExpired))

\* a pair is learned from a loaded item or from the entry form, or added with
\* the Add button of the modal
AddPair(customer, workItem, q) ==
    Becomes(addCustomerWorkPair(Mem, customer, workItem, q))

\* the Mark Expired button of a pair of the active list
MarkExpired(customer, workItem, q) ==
    /\ <<customer, workItem>> \in getCustomerWorkPairs(Mem)
    /\ Becomes(markPairAsExpired(Mem, customer, workItem, q))

\* the Reactivate button of a pair of the expired list
Reactivate(customer, workItem, q) ==
    /\ pairKey(customer, workItem) \in expiredPairs
    /\ Becomes(addCustomerWorkPair(unmarkPairAsExpired(Mem, customer, workItem, q),
                                   customer, workItem, q))

\* the Delete button of a pair of the expired list, confirmed
DeleteExpired(customer, workItem, q) ==
    /\ pairKey(customer, workItem) \in expiredPairs
    /\ Becomes(saveCustomerWorkPairs(
                [Mem EXCEPT !.expired = @ \ {pairKey(customer, workItem)}], q))

\* the Edit button of a pair of the active list, and Save Changes
EditPair(oldCustomer, oldWorkItem, newCustomer, newWorkItem, q) ==
    /\ <<oldCustomer, oldWorkItem>> \in getCustomerWorkPairs(Mem)
    /\ Becomes(saveEdit(Mem, oldCustomer, oldWorkItem, newCustomer, newWorkItem, q))

\* a file is picked for Import Pairs
Import(file, q) == Becomes(importCustomerWorkPairs(Mem, file, q))

NextMemory ==
    \/ (Reopen /\ UNCHANGED <<gwVars, mrVars, pgVars, srvVars, grpVars, appVars, normVars, uiVars, auxVars>>)
    \/ \E c \in Typed(Customers), w \in Typed(WorkItems), q \in WriteOutcomes :
        AddPair(c, w, q)
        /\ UNCHANGED <<gwVars, mrVars, pgVars, srvVars, grpVars, appVars, normVars, uiVars, auxVars>>
    \/ \E c \in Customers, w \in WorkItems, q \in WriteOutcomes :
        MarkExpired(c, w, q)
        /\ UNCHANGED <<gwVars, mrVars, pgVars, srvVars, grpVars, appVars, normVars, uiVars, auxVars>>
    \/ \E c \in Customers, w \in WorkItems, q \in WriteOutcomes :
        Reactivate(c, w, q)
        /\ UNCHANGED <<gwVars, mrVars, pgVars, srvVars, grpVars, appVars, normVars, uiVars, auxVars>>
    \/ \E c \in Customers, w \in WorkItems, q \in WriteOutcomes :
        DeleteExpired(c, w, q)
        /\ UNCHANGED <<gwVars, mrVars, pgVars, srvVars, grpVars, appVars, normVars, uiVars, auxVars>>
    \/ \E c \in Customers, w \in WorkItems, nc \in Typed(Customers), nw \in Typed(WorkItems),
          q \in WriteOutcomes :
        EditPair(c, w, nc, nw, q)
        /\ UNCHANGED <<gwVars, mrVars, pgVars, srvVars, grpVars, appVars, normVars, uiVars, auxVars>>
    \/ \E file \in ImportFiles, q \in WriteOutcomes :
        Import(file, q)
        /\ UNCHANGED <<gwVars, mrVars, pgVars, srvVars, grpVars, appVars, normVars, uiVars, auxVars>>

InitMemory ==
    ClientInit /\ MrIdle /\ PgIdle /\ SrvIdle /\ GrpIdle /\ AppIdle /\ NormIdle /\ UiIdle
    /\ MemoryInit /\ AuxIdle
SpecMemory == InitMemory /\ [][NextMemory]_vars

-----------------------------------------------------------------------------
(* The app of processItemsWithDebug with its memory: entries are saved and  *)
(* loaded while the pairs of the memory are marked expired, reactivated,    *)
(* deleted, edited and imported in the modal                                *)

\* the pairs typed in the entry form and handled in the modal
LearnPairs == {<<(<<"Acme">>), (<<"WI-1">>)>>, <<(<<"Beta">>), (<<"WI-2">>)>>}

\* the board fetch throws, or returns the board with the group of the year
LearnBoards == {out \in BoardOutcomes : out.threw \/ GroupsSeen(out.board) = "some"}
\* the files imported: those of ImportFiles that hold these pairs only
LearnFiles ==
    {f \in ImportFiles :
        /\ f.ok
        /\ \A k \in 1..Len(f.active) :
                ~f.active[k].isNull
                /\ <<f.active[k].customer, f.active[k].workItem>> \in LearnPairs
        /\ \A k \in 1..Len(f.expired) :
                ~f.expired[k].isNull
                /\ <<f.expired[k].customer, f.expired[k].workItem>> \in LearnPairs}

\* the page is opened by a user whose key was validated, on a storage never
\* written or on one where the pair of the board's items is expired
LearnInit ==
    /\ rev = "A"
    /\ \E c \in AppClocks : tz = c.tz /\ currentWeekStart = getMonday(c.now, c.tz)
    /\ user \in {NoUser} \cup AppUsers
    /\ apiKey = (IF user = NoUser THEN Null ELSE <<"key-ann">>)
    /\ storedKey = apiKey
    /\ entries = EmptyIndex
    /\ keyPc = "idle" /\ loads = <<>> /\ saves = <<>>
    /\ lastWrite = 0
    /\ UiIdle
    /\ \E m \in {Memory(<<>>, {}, AbsentMap, Absent),
                  Memory((<<"Beta">> :> {<<"WI-2">>}), {pairKey(<<"Acme">>, <<"WI-1">>)},
                         [present |-> TRUE, v |-> (<<"Beta">> :> {<<"WI-2">>})],
                         [present |-> TRUE, v |-> {pairKey(<<"Acme">>, <<"WI-1">>)}])} :
            /\ customerWorkPairs = m.pairs /\ expiredPairs = m.expired
            /\ storedPairs = m.stored /\ storedExpired = m.storedExp

NextLearn ==
    \/ \E pr \in LearnPairs, q \in AppWrites :
        SaveEntry(pr[1], pr[2], q)
        /\ UNCHANGED <<gwVars, mrVars, pgVars, srvVars, grpVars, normVars, auxVars>>
    \/ \E j \in 1..MaxOperations, out \in LearnBoards :
        SaveBoardAnswer(j, out)
        /\ UNCHANGED <<gwVars, mrVars, pgVars, srvVars, grpVars, normVars, memVars, auxVars>>
    \/ \E j \in 1..MaxOperations :
        SaveRejected(j) /\ UNCHANGED <<gwVars, mrVars, pgVars, srvVars, grpVars, normVars, memVars, auxVars>>
    \/ \E j \in 1..MaxOperations, addAnother \in BOOLEAN :
        SaveAccepted(j, addAnother)
        /\ UNCHANGED <<gwVars, mrVars, pgVars, srvVars, grpVars, normVars, memVars, auxVars>>
    \/ (QueryData /\ UNCHANGED <<gwVars, mrVars, pgVars, srvVars, grpVars, normVars, memVars, auxVars>>)
    \/ \E i \in 1..MaxOperations, out \in LearnBoards :
        LoadBoardAnswer(i, out)
        /\ UNCHANGED <<gwVars, mrVars, pgVars, srvVars, grpVars, normVars, memVars, auxVars>>
    \/ \E i \in 1..MaxOperations, out \in ItemOutcomes, q \in AppWrites :
        LoadItemsAnswer(i, out, q)
        /\ UNCHANGED <<gwVars, mrVars, pgVars, srvVars, grpVars, normVars, auxVars>>
    \/ \E pr \in LearnPairs, q \in AppWrites :
        MarkExpired(pr[1], pr[2], q)
        /\ UNCHANGED <<gwVars, mrVars, pgVars, srvVars, grpVars, appVars, normVars, uiVars, auxVars>>
    \/ \E pr \in LearnPairs, q \in AppWrites :
        Reactivate(pr[1], pr[2], q)
        /\ UNCHANGED <<gwVars, mrVars, pgVars, srvVars, grpVars, appVars, normVars, uiVars, auxVars>>
    \/ \E pr \in LearnPairs, q \in AppWrites :
        DeleteExpired(pr[1], pr[2], q)
        /\ UNCHANGED <<gwVars, mrVars, pgVars, srvVars, grpVars, appVars, normVars, uiVars, auxVars>>
    \/ \E old \in LearnPairs, new \in LearnPairs, q \in AppWrites :
        EditPair(old[1], old[2], new[1], new[2], q)
        /\ UNCHANGED <<gwVars, mrVars, pgVars, srvVars, grpVars, appVars, normVars, uiVars, auxVars>>
    \/ \E file \in LearnFiles, q \in AppWrites :
        Import(file, q)
        /\ UNCHANGED <<gwVars, mrVars, pgVars, srvVars, grpVars, appVars, normVars, uiVars, auxVars>>

InitLearn ==
    MrIdle /\ PgIdle /\ SrvIdle /\ GrpIdle /\ NormIdle /\ LearnInit /\ EvIdle
SpecLearn == InitLearn /\ [][NextLearn]_vars

\* the 7 dates of a week, as the app writes dates, from its first day on
WeekOf(start) == {formatDate(start + 24 * (i - 1)) : i \in 1..7}

\* C5 (as stated): in every state every date the WeekIndex holds entries for is
\* one of the 7 contiguous dates of the currently selected week, also right
\* after a week navigation, while a load is in flight and after a load that
\* failed or returned early.
C5_EntriesWithinSelectedWeek ==
    \A k \in DOMAIN entries : k \in WeekOf(currentWeekStart)

\* the call that, of those that wrote this.entries, ended last
LastWriter(ls) ==
    CHOOSE i \in 1..Len(ls) :
        ls[i].wrote /\ \A j \in 1..Len(ls) : ls[j].wrote => ls[j].order <= ls[i].order

C6_Step ==
    \* a call of loadData stays on record and is never cancelled
    /\ Len(loads') >= Len(loads)
    /\ \A i \in 1..Len(loads') : loads'[i].pc # "cancelled"
    \* starting a call leaves every earlier call, in flight or not, as it was
    /\ Len(loads') > Len(loads) => \A i \in 1..Len(loads) : loads'[i] = loads[i]
    \* a call changes only by going forward on its own answer, and an answer
    \* moves one call only
    /\ \A i \in 1..Len(loads) :
            loads'[i] # loads[i] =>
                /\ loads[i].pc \in {"board", "items"}
                /\ \A j \in 1..Len(loads) : j # i => loads'[j] = loads[j]
    \* this.entries changes only when a call that held its items ends, having
    \* rendered, whatever other calls are in flight
    /\ entries' # entries =>
            \E i \in 1..Len(loads) :
                /\ loads[i].pc = "items" /\ loads'[i].pc = "done"
                /\ loads'[i].wrote /\ loads'[i].rendered
    /\ \A i \in 1..Len(loads') : loads'[i].pc = "done" => loads'[i].rendered
    \* the WeekIndex is the one written by the call that ended last
    /\ (\E i \in 1..Len(loads') : loads'[i].wrote) =>
            /\ entries' = loads'[LastWriter(loads')].result
            /\ lastWrite' = LastWriter(loads')

C10_NoGroupsFailsEverywhere ==
    /\ \A i \in 1..Len(loads) :
            loads[i].groups = "empty" =>
                loads[i].pc = "failed" /\ loads[i].note = "error" /\ loads[i].queries = 0
    /\ \A j \in 1..Len(saves) :
            saves[j].groups = "empty" =>
                saves[j].pc = "failed" /\ saves[j].note = "error" /\ saves[j].created = 0

\* C10: a loadData that finds the board without groups issues no item query
\* and ends there, with an error notification in the revision of
\* processItemsWithDebug and with a warning in the revision of processItems;
\* a saveEntry that finds the board without groups does not fail: it sends
\* create_item for the group 'new_group_mkkbbd2q'.
C10_NoGroups ==
    /\ \A i \in 1..Len(loads) :
            loads[i].groups = "empty" =>
                /\ loads[i].queries = 0
                /\ \/ rev = "A" /\ loads[i].pc = "failed" /\ loads[i].note = "error"
                   \/ rev = "B" /\ loads[i].pc = "stopped" /\ loads[i].note = "warning"
    /\ \A j \in 1..Len(saves) :
            saves[j].groups = "empty" =>
                saves[j].created = 1 /\ saves[j].groupId = fallbackGroupId

\* a loadData and a saveEntry have both found the board without groups
C10_Witness ==
    /\ \E i \in 1..Len(loads) : loads[i].groups = "empty"
    /\ \E j \in 1..Len(saves) : saves[j].groups = "empty" /\ saves[j].pc = "done"

\* C11: when an item query of loadData throws, the revision with the chain of
\* three queries (simple, paginated, basic) does not end in error: it goes on
\* to the next query, and when a later query returns items those are the items
\* it processes, ending with a success notification; the revision with the
\* single paginated query tries nothing else and ends with an error
\* notification, the WeekIndex not written.
C11_Fallback ==
    \A i \in 1..Len(loads) :
        LET l == loads[i]
        IN /\ (rev = "B" /\ l.thrown > 0) =>
                /\ l.pc \in {"items", "done"}
                /\ l.note # "error"
                /\ l.queries = IF l.pc = "items" THEN l.thrown + 1
                               ELSE IF l.from > 0 THEN l.from ELSE QueryMethods(rev)
                /\ (l.from > 0 /\ Len(l.received) > 0) =>
                        /\ l.pc = "done" /\ l.note = "success" /\ l.wrote
                        /\ l.from = l.thrown + 1
                        /\ l.processed = l.received
           /\ (rev = "A" /\ l.thrown > 0) =>
                /\ l.pc = "failed" /\ l.note = "error"
                /\ l.queries = 1 /\ l.from = 0 /\ ~l.wrote

\* the simple query threw, the paginated one returned items, and the entries
\* made of them are in the WeekIndex
C11_Witness ==
    /\ rev = "B"
    /\ \E i \in 1..Len(loads) :
            /\ loads[i].thrown = 1 /\ loads[i].from = 2
            /\ Len(loads[i].received) > 0
            /\ loads[i].pc = "done"
            /\ loads[i].result # EmptyIndex
            /\ entries = loads[i].result

\* C12 (as stated): in the revision with the chain of three queries, loadData
\* takes the list of a query other than the last only when it is not empty:
\* on an empty list it goes on to the next query, so the items processed are
\* those of the first query that returned a non-empty list.
C12_EmptyResultFallsThrough ==
    rev = "B" =>
        \A i \in 1..Len(loads) :
            (loads[i].from > 0 /\ loads[i].from < QueryMethods(rev)) =>
                Len(loads[i].received) > 0

\* the failures the gateway raised to a call of loadData: of the board fetch
\* and of the item queries
GatewayFailures(l) ==
    l.thrown + (IF l.pc = "failed" /\ l.groups = "unseen" THEN 1 ELSE 0)
LoadEnded(l) == l.pc \in {"failed", "stopped", "done"}

C13_Step ==
    /\ \A i \in 1..Len(loads) :
            (loads[i].pc \in {"board", "items"} /\ LoadEnded(loads'[i])
             /\ GatewayFailures(loads'[i]) > 0) =>
                loads'[i].note = "error" /\ ~loading'
    /\ \A j \in 1..Len(saves) :
            (saves[j].pc \in {"board", "create"} /\ saves'[j].pc = "failed") =>
                saves'[j].note = "error" /\ ~loading'
    /\ \A k \in 1..Len(edits) :
            (edits[k].pc = "await" /\ edits'[k].pc = "failed") =>
                edits'[k].note = "error" /\ ~loading'

\* C13 (as stated): a loadData, saveEntry, updateEntry or deleteEntry to which
\* the gateway raised a transport or GraphQL failure ends with an error
\* notification, never with a success notification, and the step that ends it
\* leaves the loading overlay hidden.
C13_FailuresReachTheUser == [][C13_Step]_vars


\* C15: no pair of the expired set is offered as an active suggestion, neither
\* in the active pair list (getCustomerWorkPairs) nor in the autocomplete
\* lists built from getCustomers and getWorkItemsForCustomer, even when the
\* pair is in the raw map
C15_ExpiredNeverOffered ==
    \A pr \in getCustomerWorkPairs(Mem) \cup Suggested(Mem) :
        pairKey(pr[1], pr[2]) \notin expiredPairs

\* the two localStorage items hold what the memory holds (an item never
\* written reads as an empty structure)
Persisted(m) == loadCustomerWorkPairs(m.stored, m.storedExp) = m

\* C16: after every operation that changes the CustomerWorkMemory the two
\* persisted structures equal the in-memory active map and expired set
C16_Step ==
    (customerWorkPairs' # customerWorkPairs \/ expiredPairs' # expiredPairs)
        => Persisted(Mem)'
C16_PersistedAfterEveryChange == [][C16_Step]_vars


\* a timestamp: a date of the form YYYY-MM-DD, a T, and a time of day
IsTimestamp(s) == Len(s) >= 3 /\ MatchesIsoPattern(<<s[1]>>) /\ s[2] = "T"
DatePortion(s) == <<s[1]>>
\* the decoded value of the column has a date field that is a string
HasDateField(c) ==
    /\ Filled(c.value) /\ JSONparse(c.value).ok
    /\ HasKey(JSONparse(c.value).v, "date")
    /\ Get(JSONparse(c.value).v, "date").t = "string"
DateField(c) == Get(JSONparse(c.value).v, "date").s
\* the decoded value has no date field at all, or the value does not decode
NoDateField(c) ==
    ~Filled(c.value) \/ ~JSONparse(c.value).ok \/ ~HasKey(JSONparse(c.value).v, "date")
\* the items of the batch that have one date4 column
OneDateColumn == {i \in 1..Len(nItems) : Len(ColumnsOf(nItems[i], "date4")) = 1}
DateColumn(i) == ColumnsOf(nItems[i], "date4")[1]

\* C17: for an item whose date4 column carries a timestamp with a time of
\* day, in the date field of the decoded value or, when there is no such
\* field, in the text, extractItemDate returns exactly the YYYY-MM-DD portion
\* (and the item, when filed, is filed under it); it returns no date, and the
\* item is not filed, when the value has no date field and the text is not of
\* the form YYYY-MM-DD
C17_DatePortion ==
    \A i \in OneDateColumn :
        LET c == DateColumn(i)
            filed == nPc = "done" /\ IsIndexed(nItems[i].id)
        IN /\ (HasDateField(c) /\ IsTimestamp(DateField(c)))
                => /\ extractItemDate(nItems[i]) = DatePortion(DateField(c))
                   /\ filed => DateKeyOf(nItems[i].id) = DatePortion(DateField(c))
           /\ (NoDateField(c) /\ Filled(c.text) /\ IsTimestamp(c.text))
                => /\ extractItemDate(nItems[i]) = DatePortion(c.text)
                   /\ filed => DateKeyOf(nItems[i].id) = DatePortion(c.text)
           /\ (NoDateField(c) /\ ~MatchesIsoPattern(c.text) /\ ~IsTimestamp(c.text))
                => extractItemDate(nItems[i]) = Null /\ ~filed
\* an item with a timestamp in the date field of its value, and no text, has
\* been filed under the date portion
C17_Witness ==
    /\ nPc = "done"
    /\ \E i \in OneDateColumn :
            /\ HasDateField(DateColumn(i)) /\ IsTimestamp(DateField(DateColumn(i)))
            /\ DateColumn(i).text = Null
            /\ IsIndexed(nItems[i].id)
            /\ DateKeyOf(nItems[i].id) = <<"2025-01-22">>


\* the items of the batch that have one status column, and that column
OneStatusColumn == {i \in 1..Len(nItems) : Len(ColumnsOf(nItems[i], "status")) = 1}
StatusColumn(i) == ColumnsOf(nItems[i], "status")[1]
\* the value decodes to an object with a numeric index
HasNumericIndex(c) ==
    /\ Filled(c.value) /\ JSONparse(c.value).ok
    /\ HasKey(JSONparse(c.value).v, "index")
    /\ Get(JSONparse(c.value).v, "index").t = "number"
IndexField(c) == Get(JSONparse(c.value).v, "index").n
\* the codes of the keywords the lower-cased text contains
KeywordCodes(text) ==
    IF ~Truthy(text) THEN {}
    ELSE {statusMap[k][2] : k \in {k \in 1..Len(statusMap) :
                                    Includes(toLowerCase(text), <<statusMap[k][1]>>)}}

\* C18: extractStatusValue returns the index of the status column's value
\* when it decodes to an object with a numeric index ({index: 6} gives 6,
\* displayed as Holiday); when the value cannot be decoded, the code of a
\* keyword contained in the lower-cased text ('Business Development hrs'
\* gives 11), and 1 when no keyword matches; a filed entry carries that code
C18_StatusValue ==
    \A i \in OneStatusColumn :
        LET c == StatusColumn(i)
            code == extractStatusValue(nItems[i])
            filed == nPc = "done" /\ IsIndexed(nItems[i].id)
        IN /\ HasNumericIndex(c) => code = IndexField(c)
           /\ c.value = JSONstringify(JObj(<< <<"index", JNum(6)>> >>))
                => code = 6 /\ getActivityTypeName(code) = "Holiday"
           /\ (ParseFails(c) /\ KeywordCodes(c.text) # {}) => code \in KeywordCodes(c.text)
           /\ (ParseFails(c) /\ c.text = <<"Business Development", " hrs">>) => code = 11
           /\ (ParseFails(c) /\ KeywordCodes(c.text) = {}) => code = 1
           /\ filed => EntryOf(nItems[i].id).activityType = code
\* an item with an undecodable status value and the text 'Business
\* Development hrs' has been filed with code 11
C18_Witness ==
    /\ nPc = "done"
    /\ \E i \in OneStatusColumn :
            /\ ParseFails(StatusColumn(i))
            /\ StatusColumn(i).text = <<"Business Development", " hrs">>
            /\ IsIndexed(nItems[i].id)
            /\ EntryOf(nItems[i].id).activityType = 11


\* C19: every entry of the WeekIndex has an activityType that is an integer
\* in 0..12, whatever the status column of its item holds
C19_ActivityTypeInRange ==
    \A k \in DOMAIN entries :
        \A j \in 1..Len(entries[k]) : entries[k][j].activityType \in 0..12

\* the items of the batch that have one text__1 column, and that column
OneCustomerColumn == {i \in 1..Len(nItems) : Len(ColumnsOf(nItems[i], "text__1")) = 1}
CustomerColumn(i) == ColumnsOf(nItems[i], "text__1")[1]
\* the decoded value is a string, or has a text sub-field
DecodesToString(c) ==
    Filled(c.value) /\ JSONparse(c.value).ok /\ JSONparse(c.value).v.t = "string"
DecodesToText(c) ==
    /\ Filled(c.value) /\ JSONparse(c.value).ok
    /\ HasKey(JSONparse(c.value).v, "text")
    /\ Get(JSONparse(c.value).v, "text").t = "string"
    /\ Get(JSONparse(c.value).v, "text").s # <<>>
\* what the statement lets extractColumnValue return for a column, the value
\* returned for a value that decodes to neither being given
Expected(c, neither) ==
    IF Filled(c.text) THEN c.text
    ELSE IF DecodesToString(c) THEN JSONparse(c.value).v.s
    ELSE IF DecodesToText(c) THEN Get(JSONparse(c.value).v, "text").s
    ELSE IF Filled(c.value) /\ ParseFails(c) THEN c.value
    ELSE IF Filled(c.value) THEN neither
    ELSE <<>>
\* extractColumnValue on the batch returns what Expected gives, '' for an
\* item without the column, and the filed entries carry it as the customer
ExtractsAs(neither) ==
    /\ \A i \in OneCustomerColumn :
            /\ extractColumnValue(nItems[i], "text__1")
                    = Expected(CustomerColumn(i), neither[i])
            /\ (nPc = "done" /\ IsIndexed(nItems[i].id))
                    => EntryOf(nItems[i].id).customer
                            = Expected(CustomerColumn(i), neither[i])
    /\ \A i \in 1..Len(nItems) :
            ColumnsOf(nItems[i], "text__1") = <<>>
                => extractColumnValue(nItems[i], "text__1") = <<>>

\* C20: extractColumnValue returns the column's text when it is present and
\* not the sentinel 'null' or '""'; otherwise the decoded value when that is
\* a string, or its text sub-field when present; otherwise, when the value
\* does not decode, the raw value string; and the empty string when the
\* column is missing, has no value, or has a value that decodes to something
\* that is neither a string nor has a text sub-field
C20_ColumnValue == ExtractsAs([i \in 1..Len(nItems) |-> <<>>])
\* C20 (as stated): as above, but the raw value string for every value that
\* is neither a string nor has a text sub-field
C20_RawValueOtherwise ==
    ExtractsAs([i \in 1..Len(nItems) |->
                    IF nItems[i].hasColumns /\ i \in OneCustomerColumn
                    THEN CustomerColumn(i).value ELSE <<>>])
\* an item whose text__1 value decodes to an object without text has been
\* filed with the empty string as its customer, and not the raw value
C20_Witness ==
    /\ nPc = "done"
    /\ \E i \in OneCustomerColumn :
            /\ CustomerColumn(i).value = JSONstringify(JObj(<< <<"index", JNum(3)>> >>))
            /\ ~Filled(CustomerColumn(i).text)
            /\ IsIndexed(nItems[i].id)
            /\ EntryOf(nItems[i].id).customer = <<>>


\* call i of loadData clears and rebuilds the WeekIndex in this step
Rebuilds(i) ==
    /\ i \in 1..Len(loads) /\ loads[i].pc = "items"
    /\ loads'[i].pc = "done" /\ loads'[i].wrote
    /\ entries' = Normalized(loads'[i].processed)

\* C21: the WeekIndex changes only through the clear-and-rebuild of a load:
\* no other operation (saveEntry, updateEntry, deleteEntry, week navigation)
\* adds, removes or edits an entry of it
C21_Step == entries' # entries => \E i \in 1..Len(loads) : Rebuilds(i)
C21_OnlyLoadsChangeTheIndex == [][C21_Step]_vars


\* the calls of updateEntry that got as far as the remote
Updates(es) == {k \in 1..Len(es) : es[k].op = "update" /\ es[k].pc # "notfound"}

\* C24: updateEntry sends exactly one change_multiple_column_values request,
\* for the id of the entry edited, whose patch carries status, customer, work
\* item and hours, the comment when it is not empty, and nothing else (no
\* date, no assignee); the request is not sent again when it fails, and no
\* step of updateEntry changes the WeekIndex
C24_Step ==
    /\ \A k \in Updates(edits') :
            /\ edits'[k].requests = 1
            /\ {"status", "text__1", "text8__1", "numbers__1"} \subseteq edits'[k].patch
            /\ edits'[k].patch
                    \subseteq {"status", "text__1", "text8__1", "numbers__1", "text2__1"}
            /\ "text2__1" \in edits'[k].patch <=> edits'[k].comment # <<>>
            /\ k > Len(edits) => HasEntry(entries, edits'[k].id)
            /\ k <= Len(edits) =>
                    /\ edits'[k].id = edits[k].id
                    /\ edits'[k].patch = edits[k].patch
    /\ (\E k \in 1..Len(edits') :
            edits'[k].op = "update" /\ (k > Len(edits) \/ edits'[k] # edits[k]))
        => entries' = entries
C24_UpdateIsOnePatch == [][C24_Step]_vars
\* an update with a comment has failed, after one request, with the WeekIndex
\* as it was
C24_Witness ==
    \E k \in Updates(edits) :
        /\ edits[k].pc = "failed"
        /\ edits[k].requests = 1
        /\ edits[k].patch = {"status", "text__1", "text8__1", "numbers__1", "text2__1"}
        /\ entries = processItemsWithDebug(EditItems, user, currentWeekStart)


\* the entries the WeekIndex holds under a date
EntriesAt(index, date) == IF date \in DOMAIN index THEN index[date] ELSE <<>>

\* C27: deleteEntry sends its one delete_item request only for an id that is
\* in the WeekIndex, and only once the user has confirmed; when the request
\* fails the WeekIndex is unchanged, and when it succeeds the entry with that
\* id is removed and every other entry keeps its date and its position
C27_Step ==
    \A k \in 1..Len(edits') :
        edits'[k].op = "delete" =>
            /\ edits'[k].requests = IF edits'[k].pc \in {"notfound", "declined"} THEN 0 ELSE 1
            /\ k > Len(edits) =>
                    /\ edits'[k].pc = "notfound" <=> ~HasEntry(entries, edits'[k].id)
                    /\ edits'[k].pc \in {"notfound", "declined", "await"}
                    /\ entries' = entries
            /\ (k <= Len(edits) /\ edits'[k] # edits[k]) =>
                    /\ edits[k].pc = "await"
                    /\ edits'[k].id = edits[k].id
                    /\ edits'[k].pc = "failed" => entries' = entries
                    /\ edits'[k].pc = "done" =>
                        /\ ~HasEntry(entries', edits[k].id)
                        /\ \A d \in DOMAIN entries \cup DOMAIN entries' :
                                EntriesAt(entries', d)
                                    = SelectSeq(EntriesAt(entries, d),
                                                LAMBDA e : e.id # edits[k].id)
C27_DeleteRemovesOneEntry == [][C27_Step]_vars
\* the first of the two entries of a date has been deleted: the second and
\* the entry of the next date are where they were
C27_Witness ==
    /\ \E k \in 1..Len(edits) :
            edits[k].op = "delete" /\ edits[k].pc = "done" /\ edits[k].id = "1001"
    /\ ~HasEntry(entries, "1001")
    /\ Len(EntriesAt(entries, <<"2025-01-22">>)) = 1
    /\ EntriesAt(entries, <<"2025-01-22">>)[1].id = "1002"
    /\ Len(EntriesAt(entries, <<"2025-01-23">>)) = 1


C23_YieldsBetweenChunks ==
    \A k \in 1..Len(handled) :
        (/\ Chunks(nItems, rev) > 1
         /\ handled[k].at \in {"input", "chunks"}
         /\ handled[k].chunk < Chunks(nItems, rev)
         /\ handled[k].nPc # "input")
            => handled[k].chunksDone < Chunks(nItems, rev)

\* C25: a load that ends in an error (the board fetch throws, the board or
\* the group of the year is missing, or every item query throws) or that is
\* refused for want of a user leaves the WeekIndex as it was
EndsInError(i) ==
    /\ i \in 1..Len(loads')
    /\ i > Len(loads) \/ loads[i].order = 0
    /\ loads'[i].order > 0
    /\ \/ loads'[i].pc \in {"failed", "nouser"}
       \/ loads'[i].pc = "stopped" /\ loads'[i].queries = 0
       \/ loads'[i].queries > 0 /\ loads'[i].thrown = loads'[i].queries
C25_Step == \A i \in 1..Len(loads') : EndsInError(i) => entries' = entries
C25_FailedLoadKeepsTheIndex == [][C25_Step]_vars

\* C26: the loading overlay is shown whenever a remote operation (a load, a
\* save, the validation of an API key) is waiting for the remote
RemoteInFlight ==
    \/ InFlight(loads) # {}
    \/ \E j \in 1..Len(saves) : saves[j].pc \in {"board", "create"}
    \/ keyPc = "await"
C26_OverlayWhileInFlight == RemoteInFlight => loading

\* C28: between two saveApiKey calls, the user the app holds was fetched with
\* the key the client holds: a saveApiKey whose validation fails leaves the
\* client's key, the user and the stored key as they were
C28_UserOfTheClientKey ==
    (keyPc = "idle" /\ user # NoUser) => (KeyOwner(apiKey) = user /\ storedKey = apiKey)

\* C29: a saveEntry changes the CustomerWorkMemory and its persisted copy
\* only on the step where its create succeeds: a save that is refused for
\* want of a user, or that is still to hear from the remote, has learned
\* nothing
C29_Step ==
    (saves' # saves /\ memVars' # memVars) =>
        \E j \in 1..Len(saves) : saves[j].pc = "create" /\ saves'[j].pc = "done"
C29_LearnedOnlyOnSuccess == [][C29_Step]_vars

\* a step of a load or of a save
LoadOrSaveStep == loads' # loads \/ saves' # saves
\* the handlers of the modal, by what they do to the memory
IsMarkExpired ==
    \E c \in Customers, w \in WorkItems, q \in WriteOutcomes : MarkExpired(c, w, q)
IsReactivate ==
    \E c \in Customers, w \in WorkItems, q \in WriteOutcomes : Reactivate(c, w, q)
IsDeleteExpired ==
    \E c \in Customers, w \in WorkItems, q \in WriteOutcomes : DeleteExpired(c, w, q)
IsEditPair ==
    \E c \in Customers, w \in WorkItems, nc \in Customers, nw \in WorkItems,
       q \in WriteOutcomes : EditPair(c, w, nc, nw, q)
IsImport == \E file \in ImportFiles, q \in WriteOutcomes : Import(file, q)
\* an expired pair that is out of the active map stays out of it
ExpiredStayOut ==
    \A c \in Customers, w \in WorkItems :
        (pairKey(c, w) \in expiredPairs /\ <<c, w>> \notin Suggested(Mem))
            => <<c, w>> \notin Suggested(Memory(customerWorkPairs', expiredPairs',
                                                storedPairs', storedExpired'))

\* C30 (as stated): a load or a save leaves the expired set as it is and an
\* expired pair out of the active map, and only a reactivate, a delete, an
\* edit or an import changes the expired set
C30_Stated ==
    /\ LoadOrSaveStep => (expiredPairs' = expiredPairs /\ ExpiredStayOut)
    /\ expiredPairs' # expiredPairs =>
            IsReactivate \/ IsDeleteExpired \/ IsEditPair \/ IsImport
C30_OnlyTheModalUnexpires == [][C30_Stated]_vars

\* C30: a load or a save leaves the expired set as it is and an expired pair
\* out of the active map, also when an item or the form carries that pair;
\* the expired set changes only by a mark-as-expired, a reactivate, a
\* delete, an edit or an import of the modal
C30_Step ==
    /\ LoadOrSaveStep => (expiredPairs' = expiredPairs /\ ExpiredStayOut)
    /\ expiredPairs' # expiredPairs =>
            IsMarkExpired \/ IsReactivate \/ IsDeleteExpired \/ IsEditPair \/ IsImport
C30_LoadAndSaveKeepExpired == [][C30_Step]_vars

\* the pair of the board's items is expired and out of the active map after a
\* load has filed an entry that carries it and a save of that pair was created
C30_Witness ==
    /\ pairKey(<<"Acme">>, <<"WI-1">>) \in expiredPairs
    /\ <<(<<"Acme">>), (<<"WI-1">>)>> \notin Suggested(Mem)
    /\ \E i \in 1..Len(loads) :
            loads[i].pc = "done" /\ <<(<<"Acme">>), (<<"WI-1">>)>> \in PairsOf(loads[i].result)
    /\ \E j \in 1..Len(saves) :
            /\ saves[j].pc = "done"
            /\ saves[j].customer = <<"Acme">> /\ saves[j].workItem = <<"WI-1">>

=============================================================================
